---- MODULE Spec2Model ----
(***************************************************************************)
(* State-machine model of the note / folder repositories of               *)
(* src/src/app/notes/useNotes.ts (hooks useNotes and useFolders) and of    *)
(* updateUserRole of src/src/context/AuthContext.tsx, running against the  *)
(* remote data store guarded by src/database.rules.json.                   *)
(*                                                                         *)
(* The store is the three path families notes/{id}, folders/{id} and       *)
(* users/{uid}/folders.  Every repository operation is a call of one       *)
(* session; a call is cut into steps at its awaits: each step is one       *)
(* store read or one store write together with the synchronous code        *)
(* around it.                                                              *)
(***************************************************************************)
EXTENDS Integers, Sequences, FiniteSets, TLC

VARIABLES
    notes,          \* notes/{id}: the note records of the store
    folders,        \* folders/{id}: the folder records of the store
    index,          \* users/{uid}/folders: the per-user folder-id index
    nextNoteId,     \* next key push(ref(db, 'notes')) hands out
    nextFolderId,   \* next key push(ref(db, 'folders')) hands out
    clock,          \* Date.now()
    user,           \* useAuth().user of each session (hook instance)
    call,           \* the repository call in flight in each session
    last,           \* the most recently completed call and what it did
    cache,          \* useFolders: the `folders` React state of each session
    subs,           \* useFolders: folder ids with a record listener open
    pendingUser,    \* useFolders: user-index notification not yet delivered
    pendingFolder,  \* useFolders: folder notifications not yet delivered
    recon,          \* useFolders: isProcessing and the ids of the pass in flight
    role,           \* users/{uid}/role: the role records of the store
    userRole,       \* useAuth().user.role of each session
    passes,         \* useFolders: the updateFoldersList passes in flight
    pendingUpdates, \* useFolders: the pendingUpdates ref of each session
    view,           \* useNotes: the `notes` React state of each session
    noteSub         \* useNotes: the listener effect of each session

\* The roles, and the state of the listener effects and of the visible list.
extra == <<role, userRole, passes, pendingUpdates, view, noteSub>>

vars == <<notes, folders, index, nextNoteId, nextFolderId, clock, user, call,
          last, cache, subs, pendingUser, pendingFolder, recon, extra>>

store == <<notes, folders, index>>

(***************************************************************************)
(* Bounds of the model.                                                    *)
(***************************************************************************)
MaxNotes == 2       \* note keys push() may hand out
MaxFolders == 2     \* folder keys push() may hand out
MaxClock == 2       \* largest value of Date.now()
MaxPasses == 2      \* reconciliation passes of one hook instance in flight
MaxListeners == 3   \* listeners one useNotes instance holds open

NoteIds == 1..MaxNotes
FolderIds == 1..MaxFolders

(***************************************************************************)
(* JavaScript values that are not ids.  Ids are positive numbers, so the   *)
(* three falsy values a folderId argument can take are kept apart from     *)
(* them and from each other (undefined !== null).                          *)
(***************************************************************************)
Undefined == 0
Null == -1
EmptyStr == -2
NoTime == -3

Truthy(v) == v > 0

Users == {"u1", "u2"}
NoUser == "nobody"
Sessions == {"s1", "s2", "s3"}

(***************************************************************************)
(* Strings are sequences of characters, so that trim(), toLowerCase() and  *)
(* length are computed and not assumed.                                    *)
(***************************************************************************)
RECURSIVE TrimLeft(_)
TrimLeft(s) ==
    IF s = <<>> THEN s
    ELSE IF Head(s) = " " THEN TrimLeft(Tail(s)) ELSE s

RECURSIVE TrimRight(_)
TrimRight(s) ==
    IF s = <<>> THEN s
    ELSE IF s[Len(s)] = " " THEN TrimRight(SubSeq(s, 1, Len(s) - 1)) ELSE s

Trim(s) == TrimRight(TrimLeft(s))

LowerChar(c) ==
    CASE c = "W" -> "w"
      [] c = "H" -> "h"
      [] OTHER -> c

ToLowerCase(s) == [i \in DOMAIN s |-> LowerChar(s[i])]

Includes(seq, x) == \E i \in DOMAIN seq : seq[i] = x

Without(seq, x) == SelectSeq(seq, LAMBDA y : y # x)

UntitledNote == <<"U">>

(***************************************************************************)
(* Records of the store.  A path that holds nothing reads as a snapshot    *)
(* with exists() = false.  A folder record written field by field (an      *)
(* update of noteIds / updatedAt under a path that held nothing) has no    *)
(* name and no userId.  An empty noteIds list is not stored: it reads      *)
(* back as no list at all, which is the empty sequence here.               *)
(***************************************************************************)
NoNote == [exists |-> FALSE]
NoFolder == [exists |-> FALSE]

NoteRec(title, content, len, uid, fid, created, updated) ==
    [exists |-> TRUE, title |-> title, content |-> content,
     contentLength |-> len, userId |-> uid, folderId |-> fid,
     createdAt |-> created, updatedAt |-> updated]

FolderRec(name, uid, ids, created, updated) ==
    [exists |-> TRUE, name |-> name, userId |-> uid, noteIds |-> ids,
     createdAt |-> created, updatedAt |-> updated]

\* update(ref(db, `folders/${f}`), {noteIds, updatedAt}) and the same two
\* paths inside a multi-path update.
SetFolderNoteIds(fs, f, ids, now) ==
    [fs EXCEPT ![f] =
        IF fs[f].exists
        THEN [fs[f] EXCEPT !.noteIds = ids, !.updatedAt = now]
        ELSE FolderRec(<<>>, NoUser, ids, NoTime, now)]

\* A record of the store that exists and has the given userId.  A path
\* that names no id (folders/undefined) holds no record.
NoteOwned(ns, n, u) == n \in DOMAIN ns /\ ns[n].exists /\ ns[n].userId = u

FolderOwned(fs, f, u) == f \in DOMAIN fs /\ fs[f].exists /\ fs[f].userId = u

(***************************************************************************)
(* database.rules.json.  notes and folders grant .write to every           *)
(* authenticated principal at the collection level, and a grant at a       *)
(* parent applies below it; what is left is .validate, which is checked    *)
(* on the data a write leaves at notes/{id}.                               *)
(***************************************************************************)
RulesAllowNote(u, new) ==
    /\ u # NoUser
    /\ new.exists =>
          /\ new.userId = u
          /\ new.title # <<>>

(***************************************************************************)
(* Calls.  call[s] is IdleCall between calls.  `last` keeps, for the call  *)
(* completed most recently: what was called, by whom, with which           *)
(* arguments, its outcome (the message of the Error thrown, or "ok"), the  *)
(* number of store writes it issued, the store (and the session's cached   *)
(* folder list) as it was when the call began, and whether it repeats the  *)
(* successful call completed just before it (same operation, same          *)
(* principal, same arguments).  `last` is NoCall while a call is in        *)
(* flight.                                                                 *)
(***************************************************************************)
IdleCall == [op |-> "idle", pc |-> "idle"]

ErrAuth == "User not authenticated"
ErrNoFolder == "No folder selected"
ErrNote == "Note not found or unauthorized"
ErrTarget == "Target folder not found or unauthorized"
ErrSelected == "Selected folder does not exist or you do not have permission"
ErrDenied == "PERMISSION_DENIED"
ErrEmptyName == "Folder name cannot be empty"
ErrExists == "A folder with this name already exists"
ErrFolder == "Folder not found"
ErrFolderAuth == "Unauthorized to delete this folder"

Pre(s) == [notes |-> notes, folders |-> folders, index |-> index,
           nextNoteId |-> nextNoteId, nextFolderId |-> nextFolderId,
           cached |-> cache[s], role |-> role]

EmptyPre == [notes |-> [n \in NoteIds |-> NoNote],
             folders |-> [f \in FolderIds |-> NoFolder],
             index |-> [u \in Users |-> <<>>],
             nextNoteId |-> 1, nextFolderId |-> 1,
             cached |-> [f \in FolderIds |-> NoFolder],
             role |-> [u \in Users |-> "user"]]

NoCall == [op |-> "none", sess |-> "s1", user |-> NoUser, args |-> <<>>,
           result |-> "ok", ret |-> 0, wrote |-> 0, pre |-> EmptyPre,
           repeat |-> FALSE]

\* The call about to begin repeats the call completed just before it.
Repeats(s, op, args) ==
    /\ last.op = op
    /\ last.result = "ok"
    /\ last.user = user[s]
    /\ last.args = args

Summary(s, op, args, res, ret, wrote, pre) ==
    [op |-> op, sess |-> s, user |-> user[s], args |-> args,
     result |-> res, ret |-> ret, wrote |-> wrote, pre |-> pre,
     repeat |-> IF call[s] = IdleCall THEN Repeats(s, op, args)
                ELSE call[s].repeat]

\* The call of session s returns ret (res = "ok") or throws (res = the message).
Finish(s, op, args, res, ret, wrote, pre) ==
    /\ call' = [call EXCEPT ![s] = IdleCall]
    /\ last' = Summary(s, op, args, res, ret, wrote, pre)

AllIdle == \A s \in Sessions : call[s] = IdleCall

UNCH_listen == UNCHANGED <<cache, subs, pendingUser, pendingFolder, recon>>

(***************************************************************************)
(* Store notifications.  A write under folders/{f} or users/{u}/folders    *)
(* raises a value event for every listener open on that path.  A session   *)
(* with a signed-in user has run the effect of useFolders: its listener    *)
(* on users/{uid} is open, and the first value event is due.               *)
(***************************************************************************)
NotifyFolders(fset) ==
    pendingFolder' = [s \in Sessions |-> pendingFolder[s] \cup (fset \cap subs[s])]

NotifyUser(u) ==
    pendingUser' = [s \in Sessions |-> pendingUser[s] \/ user[s] = u]

\* Roles are provisioned outside the application: u1 is the root
\* administrator, u2 a plain user.  No reconciliation pass is in flight, and
\* the listener effect of useNotes has not run yet.
Roles == {"user", "admin", "root_admin"}

NoRole == "none"

RoleOf(rs, u) == IF u \in DOMAIN rs THEN rs[u] ELSE NoRole

NoNoteSub == [active |-> FALSE, assigned |-> FALSE, mine |-> 0, open |-> 0,
              folderId |-> Null, data |-> <<>>, got |-> 0, folder |-> NoFolder]

InitOthers ==
    /\ role = [u \in Users |-> IF u = "u1" THEN "root_admin" ELSE "user"]
    /\ userRole = [s \in Sessions |-> RoleOf(role, user[s])]
    /\ passes = [s \in Sessions |-> <<>>]
    /\ pendingUpdates = [s \in Sessions |-> <<>>]
    /\ view = [s \in Sessions |-> <<>>]
    /\ noteSub = [s \in Sessions |-> NoNoteSub]

Init ==
    /\ notes = [n \in NoteIds |-> NoNote]
    /\ folders = [f \in FolderIds |-> NoFolder]
    /\ index = [u \in Users |-> <<>>]
    /\ nextNoteId = 1
    /\ nextFolderId = 1
    /\ clock = 1
    /\ user = [s \in Sessions |-> CASE s = "s1" -> "u1"
                                    [] s = "s2" -> "u2"
                                    [] OTHER -> NoUser]
    /\ call = [s \in Sessions |-> IdleCall]
    /\ last = NoCall
    /\ cache = [s \in Sessions |-> [f \in FolderIds |-> NoFolder]]
    /\ subs = [s \in Sessions |-> {}]
    /\ pendingUser = [s \in Sessions |-> user[s] # NoUser]
    /\ pendingFolder = [s \in Sessions |-> {}]
    /\ recon = [s \in Sessions |-> [isProcessing |-> FALSE, ids |-> <<>>]]
    /\ InitOthers

\* Date.now() moves on.
Tick ==
    /\ clock < MaxClock
    /\ clock' = clock + 1
    /\ UNCHANGED <<notes, folders, index, nextNoteId, nextFolderId, user, extra,
                   call, last, cache, subs, pendingUser, pendingFolder, recon>>

(***************************************************************************)
(* useNotes.createNote(title, content, folderId)                           *)
(***************************************************************************)
\* A test that lets every folderId but null through.
FolderSelectedUnlessNull(folderId) == folderId # Null

\* `if (!folderId)`, negated
FolderSelected(folderId) == Truthy(folderId)

\* The record createNote builds.
NewNote(title, content, uid, folderId, now) ==
    NoteRec(IF Trim(title) = <<>> THEN UntitledNote ELSE Trim(title),
            Trim(content), Len(Trim(content)), uid,
            IF Truthy(folderId) THEN folderId ELSE Undefined, now, now)

\* Up to and including `await set(newNoteRef, newNote)`.
CreateNote(s, title, content, folderId) ==
    /\ call[s] = IdleCall
    /\ LET args == [title |-> title, content |-> content, folderId |-> folderId]
       IN  IF user[s] = NoUser
           THEN /\ Finish(s, "createNote", args, ErrAuth, 0, 0, Pre(s))
                /\ UNCHANGED <<notes, nextNoteId>>
           ELSE IF ~FolderSelected(folderId)
           THEN /\ Finish(s, "createNote", args, ErrNoFolder, 0, 0, Pre(s))
                /\ UNCHANGED <<notes, nextNoteId>>
           ELSE /\ nextNoteId <= MaxNotes
                /\ nextNoteId' = nextNoteId + 1
                /\ LET newNote == NewNote(title, content, user[s], folderId, clock)
                   IN  IF RulesAllowNote(user[s], newNote)
                       THEN /\ notes' = [notes EXCEPT ![nextNoteId] = newNote]
                            /\ call' = [call EXCEPT ![s] =
                                   [op |-> "createNote", pc |-> "getFolder",
                                    uid |-> user[s], args |-> args,
                                    noteId |-> nextNoteId, now |-> clock,
                                    noteIds |-> <<>>, wrote |-> 1,
                                    pre |-> Pre(s), repeat |-> Repeats(s, "createNote", args)]]
                            /\ last' = NoCall
                       ELSE /\ Finish(s, "createNote", args, ErrDenied, 0, 1, Pre(s))
                            /\ UNCHANGED notes
    /\ UNCHANGED <<folders, index, nextFolderId, clock, user, extra>>
    /\ UNCH_listen

\* `folderSnapshot.exists() && folderSnapshot.val().userId === user.uid`
CreateNoteFolderOk(fs, f, u) == FolderOwned(fs, f, u)

\* `await get(folderRef)` and the test of the snapshot.
CreateNoteGetFolder(s) ==
    /\ call[s].op = "createNote"
    /\ call[s].pc = "getFolder"
    /\ LET c == call[s]
           f == c.args.folderId
       IN  IF CreateNoteFolderOk(folders, f, c.uid)
           THEN /\ call' = [call EXCEPT ![s].pc = "updateFolder",
                                        ![s].noteIds = folders[f].noteIds]
                /\ UNCHANGED last
           ELSE Finish(s, "createNote", c.args, "ok", c.noteId, c.wrote, c.pre)
    /\ UNCHANGED <<notes, folders, index, nextNoteId, nextFolderId, clock, user, extra>>
    /\ UNCH_listen

\* `await update(folderRef, {noteIds, updatedAt: now})` when the id is new.
CreateNoteUpdateFolder(s) ==
    /\ call[s].op = "createNote"
    /\ call[s].pc = "updateFolder"
    /\ LET c == call[s]
           f == c.args.folderId
       IN  IF ~Includes(c.noteIds, c.noteId)
           THEN /\ folders' = SetFolderNoteIds(folders, f,
                                  Append(c.noteIds, c.noteId), c.now)
                /\ NotifyFolders({f})
                /\ Finish(s, "createNote", c.args, "ok", c.noteId,
                          c.wrote + 1, c.pre)
           ELSE /\ UNCHANGED <<folders, pendingFolder>>
                /\ Finish(s, "createNote", c.args, "ok", c.noteId, c.wrote, c.pre)
    /\ UNCHANGED <<notes, index, nextNoteId, nextFolderId, clock, user, extra,
                   cache, subs, pendingUser, recon>>

(***************************************************************************)
(* A multi-path update(ref(db), updates) over note n and some folders.     *)
(* upd.folders maps the folder ids whose noteIds / updatedAt paths are in  *)
(* the map to their new list; upd.note says what happens at notes/{n}:     *)
(* "none", "folderId" (folderId and updatedAt are set) or "delete".  The   *)
(* write is applied whole or, when the rules reject a path, not at all.    *)
(***************************************************************************)
NoUpdates == [folders |-> [f \in {} |-> <<>>], note |-> "none", folderId |-> Undefined]

UpdatesEmpty(upd) == DOMAIN upd.folders = {} /\ upd.note = "none"

NoteAfter(ns, n, upd, now) ==
    CASE upd.note = "delete" -> NoNote
      [] upd.note = "folderId" ->
            IF ns[n].exists
            THEN [ns[n] EXCEPT !.folderId = upd.folderId, !.updatedAt = now]
            ELSE [exists |-> TRUE, title |-> <<>>, content |-> <<>>,
                  contentLength |-> 0, userId |-> NoUser,
                  folderId |-> upd.folderId, createdAt |-> NoTime,
                  updatedAt |-> now]
      [] OTHER -> ns[n]

FoldersAfter(fs, upd, now) ==
    [f \in FolderIds |->
        IF f \in DOMAIN upd.folders
        THEN SetFolderNoteIds(fs, f, upd.folders[f], now)[f]
        ELSE fs[f]]

MultiPathAllowed(u, n, upd, now) ==
    upd.note = "none" \/ RulesAllowNote(u, NoteAfter(notes, n, upd, now))

MultiPathWrite(n, upd, now) ==
    /\ notes' = [notes EXCEPT ![n] = NoteAfter(notes, n, upd, now)]
    /\ folders' = FoldersAfter(folders, upd, now)
    /\ NotifyFolders(DOMAIN upd.folders)

(***************************************************************************)
(* useNotes.moveNoteToFolder(noteId, targetFolderId)                       *)
(***************************************************************************)
\* `currentFolderId !== targetFolderId`
FolderIdChanges(currentFolderId, targetFolderId) ==
    currentFolderId # targetFolderId

MovePcAfterTarget(cur, t) ==
    IF Truthy(cur) /\ cur # t THEN "getCurrent" ELSE "write"

\* `!noteSnapshot.exists() || noteSnapshot.val().userId !== user.uid`, negated
MoveNoteAuthorized(ns, n, u) == NoteOwned(ns, n, u)

\* `!targetFolderSnapshot.exists() || targetFolderSnapshot.val().userId !== user.uid`,
\* negated
\* A test of the target that leaves out the comparison of userId.
TargetFolderExists(fs, t, u) == t \in DOMAIN fs /\ fs[t].exists

TargetFolderOk(fs, t, u) == FolderOwned(fs, t, u)

\* Up to `await get(noteRef)` and the test of the snapshot.
MoveNoteToFolder(s, n, t) ==
    /\ call[s] = IdleCall
    /\ LET args == [noteId |-> n, targetFolderId |-> t]
       IN  IF user[s] = NoUser
           THEN Finish(s, "moveNoteToFolder", args, ErrAuth, 0, 0, Pre(s))
           ELSE IF ~MoveNoteAuthorized(notes, n, user[s])
           THEN Finish(s, "moveNoteToFolder", args, ErrNote, 0, 0, Pre(s))
           ELSE /\ call' = [call EXCEPT ![s] =
                       [op |-> "moveNoteToFolder",
                        pc |-> IF Truthy(t) THEN "getTarget"
                               ELSE MovePcAfterTarget(notes[n].folderId, t),
                        uid |-> user[s], args |-> args,
                        cur |-> notes[n].folderId, now |-> clock,
                        upd |-> NoUpdates, wrote |-> 0,
                        pre |-> Pre(s), repeat |-> Repeats(s, "moveNoteToFolder", args)]]
                /\ last' = NoCall
    /\ UNCHANGED <<notes, folders, index, nextNoteId, nextFolderId, clock, user, extra>>
    /\ UNCH_listen

\* The Promise.all of the two folder reads, the test of the target and the
\* target's new list.
MoveGetTarget(s) ==
    /\ call[s].op = "moveNoteToFolder"
    /\ call[s].pc = "getTarget"
    /\ LET c == call[s]
           n == c.args.noteId
           t == c.args.targetFolderId
       IN  IF ~TargetFolderOk(folders, t, c.uid)
           THEN Finish(s, "moveNoteToFolder", c.args, ErrTarget, 0, c.wrote, c.pre)
           ELSE /\ call' = [call EXCEPT
                       ![s].pc = MovePcAfterTarget(c.cur, t),
                       ![s].upd.folders =
                           IF ~Includes(folders[t].noteIds, n)
                           THEN (t :> Append(folders[t].noteIds, n))
                           ELSE c.upd.folders]
                /\ UNCHANGED last
    /\ UNCHANGED <<notes, folders, index, nextNoteId, nextFolderId, clock, user, extra>>
    /\ UNCH_listen

\* `await get(currentFolderRef)` and the current folder's new list.
MoveGetCurrent(s) ==
    /\ call[s].op = "moveNoteToFolder"
    /\ call[s].pc = "getCurrent"
    /\ LET c == call[s]
           n == c.args.noteId
       IN  call' = [call EXCEPT
               ![s].pc = "write",
               ![s].upd.folders =
                   IF folders[c.cur].exists /\ folders[c.cur].noteIds # <<>>
                   THEN (c.cur :> Without(folders[c.cur].noteIds, n)) @@ c.upd.folders
                   ELSE c.upd.folders]
    /\ UNCHANGED <<notes, folders, index, nextNoteId, nextFolderId, clock, user, extra, last>>
    /\ UNCH_listen

\* An entry of the visible list of useNotes: the fields of the note the
\* properties of the list read.
ViewEntry(n, u, f) == [id |-> n, userId |-> u, folderId |-> f]

\* A list update that adds the moved note without removing its old entry.
AppendMove(prevNotes, n, updatedNote) == Append(prevNotes, updatedNote)

\* `prevNotes.map(note => note.id === noteId ? updatedNote : note)`
OptimisticMove(prevNotes, n, updatedNote) ==
    [i \in DOMAIN prevNotes |-> IF prevNotes[i].id = n THEN updatedNote ELSE prevNotes[i]]

\* The note's own paths and `await update(ref(db), updates)`, then the
\* update of the visible list.
MoveWrite(s) ==
    /\ call[s].op = "moveNoteToFolder"
    /\ call[s].pc = "write"
    /\ LET c == call[s]
           n == c.args.noteId
           t == c.args.targetFolderId
           upd == IF FolderIdChanges(c.cur, t)
                  THEN [c.upd EXCEPT !.note = "folderId",
                                     !.folderId = IF Truthy(t) THEN t ELSE Undefined]
                  ELSE c.upd
           updatedNote == ViewEntry(n, c.uid, IF Truthy(t) THEN t ELSE Undefined)
           moved == [view EXCEPT ![s] = OptimisticMove(@, n, updatedNote)]
       IN  IF UpdatesEmpty(upd)
           THEN /\ UNCHANGED <<notes, folders, pendingFolder>>
                /\ view' = moved
                /\ Finish(s, "moveNoteToFolder", c.args, "ok", 0, c.wrote, c.pre)
           ELSE IF MultiPathAllowed(c.uid, n, upd, c.now)
           THEN /\ MultiPathWrite(n, upd, c.now)
                /\ view' = moved
                /\ Finish(s, "moveNoteToFolder", c.args, "ok", 0, c.wrote + 1, c.pre)
           ELSE /\ UNCHANGED <<notes, folders, pendingFolder, view>>
                /\ Finish(s, "moveNoteToFolder", c.args, ErrDenied, 0, c.wrote + 1, c.pre)
    /\ UNCHANGED <<index, nextNoteId, nextFolderId, clock, user, role, userRole,
                   passes, pendingUpdates, noteSub, cache, subs, pendingUser, recon>>

(***************************************************************************)
(* useNotes.updateNote(noteId, newValues).  newValues is a partial record: *)
(* has is the set of keys it holds, the other fields their values.         *)
(***************************************************************************)
\* A payload whose contentLength counts one character more than content has.
PayloadOneLonger(nv, now) ==
    [has |-> (nv.has \ {"folderId"}) \cup {"updatedAt"}
               \cup (IF "content" \in nv.has THEN {"contentLength"} ELSE {}),
     title |-> nv.title,
     content |-> nv.content,
     updatedAt |-> now,
     contentLength |-> IF "content" \in nv.has THEN Len(nv.content) + 1
                       ELSE nv.contentLength]

\* noteUpdatePayload: the keys of newValues other than folderId, then
\* updatedAt: now, then contentLength when content is given.
UpdatePayload(nv, now) ==
    [has |-> (nv.has \ {"folderId"}) \cup {"updatedAt"}
               \cup (IF "content" \in nv.has THEN {"contentLength"} ELSE {}),
     title |-> nv.title,
     content |-> nv.content,
     updatedAt |-> now,
     contentLength |-> IF "content" \in nv.has THEN Len(nv.content)
                       ELSE nv.contentLength]

\* update(noteRef, payload): the record the write leaves at notes/{n}.
ApplyPayload(rec, p) ==
    [exists |-> TRUE,
     title |-> IF "title" \in p.has THEN p.title
               ELSE IF rec.exists THEN rec.title ELSE <<>>,
     content |-> IF "content" \in p.has THEN p.content
                 ELSE IF rec.exists THEN rec.content ELSE <<>>,
     contentLength |-> IF "contentLength" \in p.has THEN p.contentLength
                       ELSE IF rec.exists THEN rec.contentLength ELSE 0,
     userId |-> IF rec.exists THEN rec.userId ELSE NoUser,
     folderId |-> IF rec.exists THEN rec.folderId ELSE Undefined,
     createdAt |-> IF rec.exists THEN rec.createdAt ELSE NoTime,
     updatedAt |-> p.updatedAt]

\* A test that leaves out the comparison with previousFolderId.
FolderGiven(nv, previousFolderId) == "folderId" \in nv.has

\* `'folderId' in newValues` and `folderId !== previousFolderId`
FolderChanging(nv, previousFolderId) ==
    "folderId" \in nv.has /\ nv.folderId # previousFolderId

UpdatePcAfterOld(folderId) == IF Truthy(folderId) THEN "getNew" ELSE "writeMove"

\* `!noteSnapshot.exists() || noteSnapshot.val().userId !== user.uid`, negated
UpdateNoteAuthorized(ns, n, u) == NoteOwned(ns, n, u)

\* `!newFolderSnapshot.exists() || newFolderSnapshot.val().userId !== user.uid`,
\* negated
NewFolderOk(fs, f, u) == FolderOwned(fs, f, u)

\* Up to `await get(noteRef)`, the test of the snapshot and the payload.
UpdateNote(s, n, nv) ==
    /\ call[s] = IdleCall
    /\ LET args == [noteId |-> n, newValues |-> nv]
       IN  IF user[s] = NoUser
           THEN Finish(s, "updateNote", args, ErrAuth, 0, 0, Pre(s))
           ELSE IF ~UpdateNoteAuthorized(notes, n, user[s])
           THEN Finish(s, "updateNote", args, ErrNote, 0, 0, Pre(s))
           ELSE /\ call' = [call EXCEPT ![s] =
                       [op |-> "updateNote",
                        pc |-> IF FolderChanging(nv, notes[n].folderId)
                               THEN IF Truthy(notes[n].folderId) THEN "getOld"
                                    ELSE UpdatePcAfterOld(nv.folderId)
                               ELSE "writePlain",
                        uid |-> user[s], args |-> args,
                        cur |-> notes[n].folderId, now |-> clock,
                        upd |-> NoUpdates, wrote |-> 0,
                        pre |-> Pre(s), repeat |-> Repeats(s, "updateNote", args)]]
                /\ last' = NoCall
    /\ UNCHANGED <<notes, folders, index, nextNoteId, nextFolderId, clock, user, extra>>
    /\ UNCH_listen

\* `await get(oldFolderRef)` and the old folder's new list.
UpdateNoteGetOld(s) ==
    /\ call[s].op = "updateNote"
    /\ call[s].pc = "getOld"
    /\ LET c == call[s]
           n == c.args.noteId
       IN  call' = [call EXCEPT
               ![s].pc = UpdatePcAfterOld(c.args.newValues.folderId),
               ![s].upd.folders =
                   IF folders[c.cur].exists /\ folders[c.cur].noteIds # <<>>
                   THEN (c.cur :> Without(folders[c.cur].noteIds, n))
                   ELSE c.upd.folders]
    /\ UNCHANGED <<notes, folders, index, nextNoteId, nextFolderId, clock, user, extra, last>>
    /\ UNCH_listen

\* `await get(newFolderRef)`, the test of the new folder and its new list.
UpdateNoteGetNew(s) ==
    /\ call[s].op = "updateNote"
    /\ call[s].pc = "getNew"
    /\ LET c == call[s]
           n == c.args.noteId
           f == c.args.newValues.folderId
       IN  IF ~NewFolderOk(folders, f, c.uid)
           THEN Finish(s, "updateNote", c.args, ErrSelected, 0, c.wrote, c.pre)
           ELSE /\ call' = [call EXCEPT
                       ![s].pc = "writeMove",
                       ![s].upd.folders =
                           IF ~Includes(folders[f].noteIds, n)
                           THEN (f :> Append(folders[f].noteIds, n)) @@ c.upd.folders
                           ELSE c.upd.folders]
                /\ UNCHANGED last
    /\ UNCHANGED <<notes, folders, index, nextNoteId, nextFolderId, clock, user, extra>>
    /\ UNCH_listen

\* The note's folderId / updatedAt paths and `await update(ref(db), updates)`.
UpdateNoteWriteMove(s) ==
    /\ call[s].op = "updateNote"
    /\ call[s].pc = "writeMove"
    /\ LET c == call[s]
           n == c.args.noteId
           f == c.args.newValues.folderId
           upd == [c.upd EXCEPT !.note = "folderId",
                                !.folderId = IF Truthy(f) THEN f ELSE Undefined]
       IN  IF MultiPathAllowed(c.uid, n, upd, c.now)
           THEN /\ MultiPathWrite(n, upd, c.now)
                /\ Finish(s, "updateNote", c.args, "ok", 0, c.wrote + 1, c.pre)
           ELSE /\ UNCHANGED <<notes, folders, pendingFolder>>
                /\ Finish(s, "updateNote", c.args, ErrDenied, 0, c.wrote + 1, c.pre)
    /\ UNCHANGED <<index, nextNoteId, nextFolderId, clock, user, extra,
                   cache, subs, pendingUser, recon>>

\* `await update(noteRef, noteUpdatePayload)`
UpdateNoteWritePlain(s) ==
    /\ call[s].op = "updateNote"
    /\ call[s].pc = "writePlain"
    /\ LET c == call[s]
           n == c.args.noteId
           new == ApplyPayload(notes[n], UpdatePayload(c.args.newValues, c.now))
       IN  IF RulesAllowNote(c.uid, new)
           THEN /\ notes' = [notes EXCEPT ![n] = new]
                /\ Finish(s, "updateNote", c.args, "ok", 0, c.wrote + 1, c.pre)
           ELSE /\ UNCHANGED notes
                /\ Finish(s, "updateNote", c.args, ErrDenied, 0, c.wrote + 1, c.pre)
    /\ UNCHANGED <<folders, index, nextNoteId, nextFolderId, clock, user, extra>>
    /\ UNCH_listen

(***************************************************************************)
(* useNotes.deleteNote(noteId)                                             *)
(***************************************************************************)
\* A scan that finds no folder to clean.
NoFoldersHolding(fs, n, u) == {}

\* The folders of the scan that get new noteIds: the caller's folders
\* whose list holds the id.
FoldersHolding(fs, n, u) ==
    {f \in FolderIds : fs[f].exists /\ fs[f].userId = u /\ Includes(fs[f].noteIds, n)}

\* `!noteSnapshot.exists() || noteSnapshot.val().userId !== user.uid`, negated
\* A test of the snapshot that leaves out the comparison of userId.
DeleteNoteExists(ns, n, u) == n \in DOMAIN ns /\ ns[n].exists

DeleteNoteAuthorized(ns, n, u) == NoteOwned(ns, n, u)

\* Up to `await get(noteRef)` and the test of the snapshot.
DeleteNote(s, n) ==
    /\ call[s] = IdleCall
    /\ LET args == [noteId |-> n]
       IN  IF user[s] = NoUser
           THEN Finish(s, "deleteNote", args, ErrAuth, 0, 0, Pre(s))
           ELSE IF ~DeleteNoteAuthorized(notes, n, user[s])
           THEN Finish(s, "deleteNote", args, ErrNote, 0, 0, Pre(s))
           ELSE /\ call' = [call EXCEPT ![s] =
                       [op |-> "deleteNote", pc |-> "scan", uid |-> user[s],
                        args |-> args, now |-> clock, upd |-> NoUpdates,
                        wrote |-> 0,
                        pre |-> Pre(s), repeat |-> Repeats(s, "deleteNote", args)]]
                /\ last' = NoCall
    /\ UNCHANGED <<notes, folders, index, nextNoteId, nextFolderId, clock, user, extra>>
    /\ UNCH_listen

\* `await get(foldersRef)` and the loop over the snapshot.
DeleteNoteScan(s) ==
    /\ call[s].op = "deleteNote"
    /\ call[s].pc = "scan"
    /\ LET c == call[s]
           n == c.args.noteId
       IN  call' = [call EXCEPT
               ![s].pc = "write",
               ![s].now = clock,
               ![s].upd = [folders |-> [f \in FoldersHolding(folders, n, c.uid) |->
                                           Without(folders[f].noteIds, n)],
                           note |-> "delete", folderId |-> Undefined]]
    /\ UNCHANGED <<notes, folders, index, nextNoteId, nextFolderId, clock, user, extra, last>>
    /\ UNCH_listen

\* `await update(ref(db), updates)`
DeleteNoteWrite(s) ==
    /\ call[s].op = "deleteNote"
    /\ call[s].pc = "write"
    /\ LET c == call[s]
           n == c.args.noteId
       IN  IF MultiPathAllowed(c.uid, n, c.upd, c.now)
           THEN /\ MultiPathWrite(n, c.upd, c.now)
                /\ Finish(s, "deleteNote", c.args, "ok", 0, c.wrote + 1, c.pre)
           ELSE /\ UNCHANGED <<notes, folders, pendingFolder>>
                /\ Finish(s, "deleteNote", c.args, ErrDenied, 0, c.wrote + 1, c.pre)
    /\ UNCHANGED <<index, nextNoteId, nextFolderId, clock, user, extra,
                   cache, subs, pendingUser, recon>>

(***************************************************************************)
(* useFolders.createFolder(name)                                           *)
(***************************************************************************)
\* isMounted.current of useFolders: set by the effect, cleared by cleanup,
\* which the effect itself calls when there is no user.
Mounted(s) == user[s] # NoUser

SameName(a, b) == ToLowerCase(a) = ToLowerCase(b)

\* `folders.find(folder => folder.name.toLowerCase() === folderName.toLowerCase())`
CachedName(cached, folderName) ==
    \E f \in FolderIds : cached[f].exists /\ SameName(cached[f].name, folderName)

\* A check that trusts the cached list and reads no folder from the store.
NoFoldersToCheck(ids, cached) == <<>>

\* `userFolderIds.filter(id => !folders.some(f => f.id === id))`
FoldersToCheck(ids, cached) == SelectSeq(ids, LAMBDA f : ~cached[f].exists)

\* `folderSnapshots.some(...)`: "dup" when a snapshot has the name, "type"
\* when the scan first meets a record with no name (name.toLowerCase() of
\* undefined throws a TypeError), "none" otherwise.
RECURSIVE DuplicateScan(_, _, _)
DuplicateScan(ids, fs, folderName) ==
    IF ids = <<>> THEN "none"
    ELSE LET f == Head(ids)
         IN  IF ~fs[f].exists THEN DuplicateScan(Tail(ids), fs, folderName)
             ELSE IF fs[f].name = <<>> THEN "type"
             ELSE IF SameName(fs[f].name, folderName) THEN "dup"
             ELSE DuplicateScan(Tail(ids), fs, folderName)

ErrType == "TypeError"

\* createFolder calls that have passed the checks and not yet called push().
PushesDue == Cardinality({s \in Sessions : call[s].op = "createFolder"
                                            /\ call[s].pc = "check"})

\* The argument checks and the check against the cached folder list.
CreateFolder(s, name) ==
    /\ call[s] = IdleCall
    /\ LET args == [name |-> name]
           folderName == Trim(name)
       IN  IF user[s] = NoUser
           THEN Finish(s, "createFolder", args, ErrAuth, 0, 0, Pre(s))
           ELSE IF folderName = <<>>
           THEN Finish(s, "createFolder", args, ErrEmptyName, 0, 0, Pre(s))
           ELSE IF CachedName(cache[s], folderName)
           THEN Finish(s, "createFolder", args, ErrExists, 0, 0, Pre(s))
           ELSE /\ nextFolderId + PushesDue <= MaxFolders
                /\ call' = [call EXCEPT ![s] =
                       [op |-> "createFolder", pc |-> "check", uid |-> user[s],
                        args |-> args, folderName |-> folderName,
                        cached |-> cache[s], newFolderId |-> 0, now |-> 0,
                        existing |-> <<>>, wrote |-> 0,
                        pre |-> Pre(s), repeat |-> Repeats(s, "createFolder", args)]]
                /\ last' = NoCall
    /\ UNCHANGED <<notes, folders, index, nextNoteId, nextFolderId, clock, user, extra>>
    /\ UNCH_listen

\* `await get(userRef)`, the reads of the folders not in the cached list and
\* the test of their names; then push() and Date.now().
CreateFolderCheck(s) ==
    /\ call[s].op = "createFolder"
    /\ call[s].pc = "check"
    /\ LET c == call[s]
           found == DuplicateScan(FoldersToCheck(index[c.uid], c.cached),
                                  folders, c.folderName)
       IN  IF found = "dup"
           THEN /\ Finish(s, "createFolder", c.args, ErrExists, 0, c.wrote, c.pre)
                /\ UNCHANGED nextFolderId
           ELSE IF found = "type"
           THEN /\ Finish(s, "createFolder", c.args, ErrType, 0, c.wrote, c.pre)
                /\ UNCHANGED nextFolderId
           ELSE /\ nextFolderId' = nextFolderId + 1
                /\ call' = [call EXCEPT ![s].pc = "readIndex",
                                        ![s].newFolderId = nextFolderId,
                                        ![s].now = clock]
                /\ UNCHANGED last
    /\ UNCHANGED <<notes, folders, index, nextNoteId, clock, user, extra>>
    /\ UNCH_listen

\* `await get(userFoldersRef)`
CreateFolderReadIndex(s) ==
    /\ call[s].op = "createFolder"
    /\ call[s].pc = "readIndex"
    /\ call' = [call EXCEPT ![s].pc = "write",
                            ![s].existing = index[call[s].uid]]
    /\ UNCHANGED <<notes, folders, index, nextNoteId, nextFolderId, clock, user, extra, last>>
    /\ UNCH_listen

\* `await update(ref(db), updates)`: the folder record and the index.
CreateFolderWrite(s) ==
    /\ call[s].op = "createFolder"
    /\ call[s].pc = "write"
    /\ LET c == call[s]
       IN  /\ folders' = [folders EXCEPT ![c.newFolderId] =
                            FolderRec(c.folderName, c.uid, <<>>, c.now, c.now)]
           /\ index' = [index EXCEPT ![c.uid] = Append(c.existing, c.newFolderId)]
           /\ NotifyUser(c.uid)
           /\ NotifyFolders({c.newFolderId})
           /\ Finish(s, "createFolder", c.args, "ok", c.newFolderId,
                     c.wrote + 1, c.pre)
    /\ UNCHANGED <<notes, nextNoteId, nextFolderId, clock, user, extra, cache, subs, recon>>

(***************************************************************************)
(* useFolders.deleteFolder(id)                                             *)
(***************************************************************************)
\* Up to `await get(folderRef)` and the two tests of the snapshot.
DeleteFolder(s, id) ==
    /\ call[s] = IdleCall
    /\ LET args == [id |-> id]
       IN  IF user[s] = NoUser
           THEN Finish(s, "deleteFolder", args, ErrAuth, 0, 0, Pre(s))
           ELSE IF ~folders[id].exists
           THEN Finish(s, "deleteFolder", args, ErrFolder, 0, 0, Pre(s))
           ELSE IF folders[id].userId # user[s]
           THEN Finish(s, "deleteFolder", args, ErrFolderAuth, 0, 0, Pre(s))
           ELSE /\ call' = [call EXCEPT ![s] =
                       [op |-> "deleteFolder",
                        pc |-> IF folders[id].noteIds # <<>> THEN "removeNotes"
                               ELSE "getUser",
                        uid |-> user[s], args |-> args,
                        noteIds |-> folders[id].noteIds, userFolderIds |-> <<>>,
                        wrote |-> 0,
                        pre |-> Pre(s), repeat |-> Repeats(s, "deleteFolder", args)]]
                /\ last' = NoCall
    /\ UNCHANGED <<notes, folders, index, nextNoteId, nextFolderId, clock, user, extra>>
    /\ UNCH_listen

\* A removal that stops after the first id of the list.
NotesAfterFirstRemoval(ns, ids) ==
    [n \in NoteIds |-> IF ids # <<>> /\ n = Head(ids) THEN NoNote ELSE ns[n]]

\* The notes once every `remove(ref(db, `notes/${noteId}`))` is applied.
NotesAfterRemoval(ns, ids) ==
    [n \in NoteIds |-> IF Includes(ids, n) THEN NoNote ELSE ns[n]]

\* `remove(ref(db, `notes/${noteId}`))` for every id of the list, awaited
\* together.
DeleteFolderRemoveNotes(s) ==
    /\ call[s].op = "deleteFolder"
    /\ call[s].pc = "removeNotes"
    /\ LET c == call[s]
       IN  /\ notes' = NotesAfterRemoval(notes, c.noteIds)
           /\ call' = [call EXCEPT ![s].pc = "getUser",
                                   ![s].wrote = c.wrote + Len(c.noteIds)]
    /\ UNCHANGED <<folders, index, nextNoteId, nextFolderId, clock, user, extra, last>>
    /\ UNCH_listen

Elems(seq) == {seq[i] : i \in DOMAIN seq}

ErrDeleteNotes == "Failed to delete notes in the folder"

\* The notes once the removals of the ids in `done` are applied.
NotesAfterSome(ns, done) ==
    [n \in NoteIds |-> IF n \in done THEN NoNote ELSE ns[n]]

\* A deleteFolder that goes on to the index although a removal was rejected.
DeleteFolderRemoveNotesIgnored(s) ==
    /\ call[s].op = "deleteFolder"
    /\ call[s].pc = "removeNotes"
    /\ LET c == call[s]
       IN  \E done \in SUBSET Elems(c.noteIds) :
               /\ done # Elems(c.noteIds)
               /\ notes' = NotesAfterSome(notes, done)
               /\ call' = [call EXCEPT ![s].pc = "getUser",
                                       ![s].wrote = c.wrote + Len(c.noteIds)]
    /\ UNCHANGED <<folders, index, nextNoteId, nextFolderId, clock, user, extra, last>>
    /\ UNCH_listen

\* The removals awaited together, one of them at least rejected by the
\* store: the others are applied, and the catch block throws.
DeleteFolderRemoveNotesFail(s) ==
    /\ call[s].op = "deleteFolder"
    /\ call[s].pc = "removeNotes"
    /\ LET c == call[s]
       IN  \E done \in SUBSET Elems(c.noteIds) :
               /\ done # Elems(c.noteIds)
               /\ notes' = NotesAfterSome(notes, done)
               /\ Finish(s, "deleteFolder", c.args, ErrDeleteNotes, 0,
                         c.wrote + Len(c.noteIds), c.pre)
    /\ UNCHANGED <<folders, index, nextNoteId, nextFolderId, clock, user, extra>>
    /\ UNCH_listen

\* `await get(userRef)` and the index without the id.
DeleteFolderGetUser(s) ==
    /\ call[s].op = "deleteFolder"
    /\ call[s].pc = "getUser"
    /\ call' = [call EXCEPT
           ![s].pc = "write",
           ![s].userFolderIds = Without(index[call[s].uid], call[s].args.id)]
    /\ UNCHANGED <<notes, folders, index, nextNoteId, nextFolderId, clock, user, extra, last>>
    /\ UNCH_listen

\* `await update(ref(db), updates)` and the removal from the cached list.
DeleteFolderWrite(s) ==
    /\ call[s].op = "deleteFolder"
    /\ call[s].pc = "write"
    /\ LET c == call[s]
           id == c.args.id
       IN  /\ index' = [index EXCEPT ![c.uid] = c.userFolderIds]
           /\ folders' = [folders EXCEPT ![id] = NoFolder]
           /\ NotifyUser(c.uid)
           /\ NotifyFolders({id})
           /\ cache' = IF Mounted(s)
                       THEN [cache EXCEPT ![s][id] = NoFolder]
                       ELSE cache
           /\ Finish(s, "deleteFolder", c.args, "ok", 0, c.wrote + 1, c.pre)
    /\ UNCHANGED <<notes, nextNoteId, nextFolderId, clock, user, extra, subs, recon>>

(***************************************************************************)
(* useFolders: the listener on users/{uid}, the reconciliation pass and    *)
(* the listeners on folders/{id}.                                          *)
(***************************************************************************)
UnnamedFolder == <<"U", "F">>

\* A call of updateFoldersList that passed the guard of its first line: the
\* ids it was given and the user of its closure.  `torn` records that
\* cleanup() has run since the call started.
NewPass(folderIds, u) == [ids |-> folderIds, uid |-> u, torn |-> FALSE]

RemoveAt(seq, i) == SubSeq(seq, 1, i - 1) \o SubSeq(seq, i + 1, Len(seq))

\* handleUserSnapshot: the ids of the index, the start of a reconciliation
\* pass (dropped when one is in flight) or the reset of the cached list,
\* and a record listener per id, each with its first value event due.
HandleUserSnapshot(s) ==
    /\ pendingUser[s]
    /\ pendingUser' = [pendingUser EXCEPT ![s] = FALSE]
    /\ IF ~Mounted(s)
       THEN UNCHANGED <<recon, passes, cache, subs, pendingFolder>>
       ELSE LET folderIds == index[user[s]]
            IN  /\ IF folderIds # <<>>
                   THEN /\ recon' = IF recon[s].isProcessing THEN recon
                                    ELSE [recon EXCEPT ![s] =
                                            [isProcessing |-> TRUE, ids |-> folderIds]]
                        /\ passes' = IF recon[s].isProcessing THEN passes
                                     ELSE [passes EXCEPT ![s] =
                                             Append(@, NewPass(folderIds, user[s]))]
                        /\ UNCHANGED cache
                   ELSE /\ cache' = [cache EXCEPT ![s] = [f \in FolderIds |-> NoFolder]]
                        /\ UNCHANGED <<recon, passes>>
                /\ subs' = [subs EXCEPT ![s] = @ \cup Elems(folderIds)]
                /\ pendingFolder' = [pendingFolder EXCEPT ![s] = @ \cup Elems(folderIds)]
    /\ UNCHANGED <<notes, folders, index, nextNoteId, nextFolderId, clock, user,
                   role, userRole, pendingUpdates, view, noteSub, call, last>>

\* `validNotes`: the ids of the list whose note exists, is the caller's and
\* names this folder.
ValidNoteIds(ns, fs, f, u) ==
    SelectSeq(fs[f].noteIds,
              LAMBDA n : ns[n].exists /\ ns[n].userId = u /\ ns[n].folderId = f)

\* A pass that never writes a list back.
NeverNeedsRepair(ns, fs, f, u) == FALSE

\* `updatedNoteIds.length !== noteIds.length`
NeedsRepair(ns, fs, f, u) ==
    fs[f].exists /\ Len(ValidNoteIds(ns, fs, f, u)) # Len(fs[f].noteIds)

\* The entry the pass pushes to updatedFolders.
ReconciledEntry(ns, fs, f, u, now) ==
    FolderRec(IF fs[f].name = <<>> THEN UnnamedFolder ELSE fs[f].name,
              IF fs[f].userId = NoUser THEN u ELSE fs[f].userId,
              ValidNoteIds(ns, fs, f, u),
              IF fs[f].createdAt = NoTime THEN now ELSE fs[f].createdAt,
              IF fs[f].updatedAt = NoTime THEN now ELSE fs[f].updatedAt)

\* One pass of updateFoldersList in flight comes to its end: the reads, the
\* writes of the lists that differ in length, the merge into the cached
\* list, and the finally block, which releases isProcessing and starts a
\* pass over pendingUpdates when there are any.
UpdateFoldersListRun(s) ==
    /\ \E i \in DOMAIN passes[s] :
        LET ids == Elems(passes[s][i].ids)
            u == passes[s][i].uid
            repaired == {f \in ids : NeedsRepair(notes, folders, f, u)}
            rest == RemoveAt(passes[s], i)
            again == pendingUpdates[s] # <<>>
        IN  /\ folders' = [f \in FolderIds |->
                             IF f \in repaired
                             THEN SetFolderNoteIds(folders, f,
                                      ValidNoteIds(notes, folders, f, u), clock)[f]
                             ELSE folders[f]]
            /\ NotifyFolders(repaired)
            /\ cache' = IF Mounted(s)
                        THEN [cache EXCEPT ![s] =
                                [f \in FolderIds |->
                                    IF f \in ids /\ folders[f].exists
                                    THEN ReconciledEntry(notes, folders, f, u, clock)
                                    ELSE cache[s][f]]]
                        ELSE cache
            /\ passes' = [passes EXCEPT ![s] =
                            IF again THEN Append(rest, NewPass(pendingUpdates[s], u))
                            ELSE rest]
            /\ recon' = [recon EXCEPT ![s] =
                            IF again
                            THEN [isProcessing |-> TRUE, ids |-> pendingUpdates[s]]
                            ELSE [isProcessing |-> FALSE, ids |-> <<>>]]
    /\ pendingUpdates' = [pendingUpdates EXCEPT ![s] = <<>>]
    /\ UNCHANGED <<notes, index, nextNoteId, nextFolderId, clock, user, role,
                   userRole, view, noteSub, call, last, subs, pendingUser>>

\* The entry a folder listener puts into the cached list.
ListenedEntry(fs, f, u, now) ==
    FolderRec(IF fs[f].name = <<>> THEN UnnamedFolder ELSE fs[f].name,
              IF fs[f].userId = NoUser THEN u ELSE fs[f].userId,
              fs[f].noteIds,
              IF fs[f].createdAt = NoTime THEN now ELSE fs[f].createdAt,
              IF fs[f].updatedAt = NoTime THEN now ELSE fs[f].updatedAt)

\* The callback of onValue(folderRef, ...) for folder f.
FolderListener(s, f) ==
    /\ f \in pendingFolder[s]
    /\ pendingFolder' = [pendingFolder EXCEPT ![s] = @ \ {f}]
    /\ cache' = IF Mounted(s) /\ folders[f].exists
                   /\ ~(cache[s][f].exists
                        /\ cache[s][f].updatedAt = folders[f].updatedAt)
                THEN [cache EXCEPT ![s][f] = ListenedEntry(folders, f, user[s], clock)]
                ELSE cache
    /\ UNCHANGED <<notes, folders, index, nextNoteId, nextFolderId, clock, user, extra,
                   call, last, subs, pendingUser, recon>>

(***************************************************************************)
(* Arguments.  A caller can name only ids that push() has handed out: the  *)
(* id of a record that exists, or of one that was deleted.                 *)
(***************************************************************************)
NoteArgs == {n \in NoteIds : n < nextNoteId}
FolderArgs == {f \in FolderIds : f < nextFolderId}

NewValues(has, title, content, len, folderId) ==
    [has |-> has, title |-> title, content |-> content,
     contentLength |-> len, folderId |-> folderId]

\* updateNote arguments that leave title and content alone.
FolderUpdates ==
    {NewValues({}, <<>>, <<>>, 0, Undefined)}
    \cup {NewValues({"folderId"}, <<>>, <<>>, 0, f) : f \in FolderArgs \cup {Undefined}}

FolderNames == {<<"w">>, <<"h">>}

(***************************************************************************)
(* Spec: the repository calls of three sessions (user u1, user u2, nobody  *)
(* signed in), one call at a time, each run to completion.  The session    *)
(* without a user tries createNote; every other operation throws ErrAuth   *)
(* for it in the same way.  No listener callback runs and Date.now() does  *)
(* not move (no step of a call reads a timestamp back).                    *)
(***************************************************************************)
SignedIn == {s \in Sessions : user[s] # NoUser}

StartCall ==
    \/ \E s \in SignedIn, name \in FolderNames : CreateFolder(s, name)
    \/ \E s \in SignedIn, id \in FolderArgs : DeleteFolder(s, id)
    \/ \E s \in Sessions, f \in FolderArgs \cup {Null, Undefined, EmptyStr} :
          CreateNote(s, <<"t">>, <<"c">>, f)
    \/ \E s \in SignedIn, n \in NoteArgs, nv \in FolderUpdates : UpdateNote(s, n, nv)
    \/ \E s \in SignedIn, n \in NoteArgs : DeleteNote(s, n)
    \/ \E s \in SignedIn, n \in NoteArgs, t \in FolderArgs \cup {Null} :
          MoveNoteToFolder(s, n, t)

StepCall ==
    \E s \in Sessions :
        \/ CreateFolderCheck(s)
        \/ CreateFolderReadIndex(s)
        \/ CreateFolderWrite(s)
        \/ DeleteFolderRemoveNotes(s)
        \/ DeleteFolderGetUser(s)
        \/ DeleteFolderWrite(s)
        \/ CreateNoteGetFolder(s)
        \/ CreateNoteUpdateFolder(s)
        \/ UpdateNoteGetOld(s)
        \/ UpdateNoteGetNew(s)
        \/ UpdateNoteWriteMove(s)
        \/ UpdateNoteWritePlain(s)
        \/ DeleteNoteScan(s)
        \/ DeleteNoteWrite(s)
        \/ MoveGetTarget(s)
        \/ MoveGetCurrent(s)
        \/ MoveWrite(s)

Next ==
    \/ AllIdle /\ StartCall
    \/ StepCall

Spec == Init /\ [][Next]_vars

(***************************************************************************)
(* SpecFolders: createFolder and deleteFolder calls of the two signed-in   *)
(* sessions, one call at a time, with the listeners of useFolders running  *)
(* at any moment and Date.now() moving on.  Names differ in case and in    *)
(* surrounding blanks.  No note is created, so every folder's noteIds is   *)
(* empty and deleteFolder has no note to remove.                           *)
(***************************************************************************)
FolderNameArgs == {<<"W">>, <<"w">>, <<" ", "w">>, <<"h">>, <<" ">>}

StartFolderCall ==
    \/ \E s \in SignedIn, name \in FolderNameArgs : CreateFolder(s, name)
    \/ \E s \in SignedIn, id \in FolderArgs : DeleteFolder(s, id)

StepFolderCall ==
    \E s \in Sessions :
        \/ CreateFolderCheck(s)
        \/ CreateFolderReadIndex(s)
        \/ CreateFolderWrite(s)
        \/ DeleteFolderGetUser(s)
        \/ DeleteFolderWrite(s)

Listeners ==
    \E s \in Sessions :
        \/ HandleUserSnapshot(s)
        \/ UpdateFoldersListRun(s)
        \/ \E f \in FolderIds : FolderListener(s, f)

NextFolders ==
    \/ AllIdle /\ StartFolderCall
    \/ StepFolderCall
    \/ Listeners
    \/ Tick

SpecFolders == Init /\ [][NextFolders]_vars

(***************************************************************************)
(* SpecContent: one signed-in session creates a folder, creates notes in   *)
(* it and calls updateNote with every subset of the optional fields title, *)
(* content, contentLength and folderId.  Date.now() does not move.         *)
(***************************************************************************)
Contents == {<<>>, <<" ", "a">>}

ContentUpdates ==
    {NewValues(has,
               IF "title" \in has THEN <<"t">> ELSE <<>>,
               IF "content" \in has THEN c ELSE <<>>,
               IF "contentLength" \in has THEN k ELSE 0,
               IF "folderId" \in has THEN f ELSE Undefined) :
        has \in SUBSET {"title", "content", "contentLength", "folderId"},
        c \in Contents, k \in {0, 2}, f \in FolderArgs \cup {Undefined}}

StartContentCall ==
    \/ CreateFolder("s1", <<"w">>)
    \/ \E c \in Contents, f \in FolderArgs : CreateNote("s1", <<"t">>, c, f)
    \/ \E n \in NoteArgs, nv \in ContentUpdates : UpdateNote("s1", n, nv)

StepContentCall ==
    \E s \in Sessions :
        \/ CreateFolderCheck(s)
        \/ CreateFolderReadIndex(s)
        \/ CreateFolderWrite(s)
        \/ CreateNoteGetFolder(s)
        \/ CreateNoteUpdateFolder(s)
        \/ UpdateNoteGetOld(s)
        \/ UpdateNoteGetNew(s)
        \/ UpdateNoteWriteMove(s)
        \/ UpdateNoteWritePlain(s)

NextContent ==
    \/ AllIdle /\ StartContentCall
    \/ StepContentCall

SpecContent == Init /\ [][NextContent]_vars

(***************************************************************************)
(* Two sessions of one user (two tabs or devices of u1).                   *)
(***************************************************************************)
InitSameUser ==
    /\ notes = [n \in NoteIds |-> NoNote]
    /\ folders = [f \in FolderIds |-> NoFolder]
    /\ index = [u \in Users |-> <<>>]
    /\ nextNoteId = 1
    /\ nextFolderId = 1
    /\ clock = 1
    /\ user = [s \in Sessions |-> IF s \in {"s1", "s2"} THEN "u1" ELSE NoUser]
    /\ call = [s \in Sessions |-> IdleCall]
    /\ last = NoCall
    /\ cache = [s \in Sessions |-> [f \in FolderIds |-> NoFolder]]
    /\ subs = [s \in Sessions |-> {}]
    /\ pendingUser = [s \in Sessions |-> user[s] # NoUser]
    /\ pendingFolder = [s \in Sessions |-> {}]
    /\ recon = [s \in Sessions |-> [isProcessing |-> FALSE, ids |-> <<>>]]
    /\ InitOthers

(***************************************************************************)
(* SpecFolderRace: the two sessions call createFolder with no order        *)
(* between the steps of one session's call and those of the other's.       *)
(***************************************************************************)
RaceNames == {<<"W">>, <<"w">>, <<"h">>}

StartFolderRace ==
    \E s \in SignedIn, name \in RaceNames : CreateFolder(s, name)

StepFolderRace ==
    \E s \in Sessions :
        \/ CreateFolderCheck(s)
        \/ CreateFolderReadIndex(s)
        \/ CreateFolderWrite(s)

NextFolderRace ==
    \/ StartFolderRace
    \/ StepFolderRace
    \/ Tick

SpecFolderRace == InitSameUser /\ [][NextFolderRace]_vars

(***************************************************************************)
(* SpecNoteRace: one folder is created while nothing else runs; createNote *)
(* and moveNoteToFolder calls of the two sessions then run with no order   *)
(* between the steps of one session's call and those of the other's.       *)
(***************************************************************************)
\* The ids createFolder has returned.
FoldersCreated == {f \in FolderIds : folders[f].exists}

StartNoteRace ==
    \/ AllIdle /\ CreateFolder("s1", <<"w">>)
    \/ \E s \in SignedIn, f \in FoldersCreated : CreateNote(s, <<"t">>, <<"c">>, f)
    \/ \E s \in SignedIn, n \in NoteArgs, t \in FoldersCreated \cup {Null} :
          MoveNoteToFolder(s, n, t)

StepNoteRace ==
    \E s \in Sessions :
        \/ CreateFolderCheck(s)
        \/ CreateFolderReadIndex(s)
        \/ CreateFolderWrite(s)
        \/ CreateNoteGetFolder(s)
        \/ CreateNoteUpdateFolder(s)
        \/ MoveGetTarget(s)
        \/ MoveGetCurrent(s)
        \/ MoveWrite(s)

NextNoteRace ==
    \/ StartNoteRace
    \/ StepNoteRace

SpecNoteRace == InitSameUser /\ [][NextNoteRace]_vars

(***************************************************************************)
(* SpecRules: database.rules.json against the writes any signed-in client  *)
(* can send to notes/{id} and folders/{id}: set of a whole record, update  *)
(* of a folder's noteIds and updatedAt, and remove.  A .write rule that    *)
(* grants at notes or folders grants at every path below; .validate rules  *)
(* are checked on the data written, never on a removal.                    *)
(***************************************************************************)
\* notes/.write and folders/.write
CollectionWriteGrant(p) == p # NoUser

\* notes/$noteId/.write and folders/$folderId/.write
RecordWriteGrant(p, old) == p # NoUser /\ (~old.exists \/ old.userId = p)

WriteGranted(p, old) == CollectionWriteGrant(p) \/ RecordWriteGrant(p, old)

\* notes/$noteId/.validate, title/.validate and userId/.validate
NoteDataValid(p, new) == new.userId = p /\ new.title # <<>>

\* folders/$folderId/name/.validate and userId/.validate
FolderDataValid(p, new) == new.userId = p /\ new.name # <<>>

Denied(allowed) == IF allowed THEN "ok" ELSE ErrDenied

\* set(ref(db, `notes/${n}`), new)
RulesSetNote(s, n, new) ==
    /\ call[s] = IdleCall
    /\ LET allowed == WriteGranted(user[s], notes[n]) /\ NoteDataValid(user[s], new)
       IN  /\ notes' = IF allowed THEN [notes EXCEPT ![n] = new] ELSE notes
           /\ Finish(s, "setNote", [id |-> n, new |-> new], Denied(allowed), 0, 1, Pre(s))
    /\ UNCHANGED <<folders, index, nextNoteId, nextFolderId, clock, user, extra>>
    /\ UNCH_listen

\* remove(ref(db, `notes/${n}`))
RulesRemoveNote(s, n) ==
    /\ call[s] = IdleCall
    /\ LET allowed == WriteGranted(user[s], notes[n])
       IN  /\ notes' = IF allowed THEN [notes EXCEPT ![n] = NoNote] ELSE notes
           /\ Finish(s, "removeNote", [id |-> n], Denied(allowed), 0, 1, Pre(s))
    /\ UNCHANGED <<folders, index, nextNoteId, nextFolderId, clock, user, extra>>
    /\ UNCH_listen

\* set(ref(db, `folders/${f}`), new)
RulesSetFolder(s, f, new) ==
    /\ call[s] = IdleCall
    /\ LET allowed == WriteGranted(user[s], folders[f]) /\ FolderDataValid(user[s], new)
       IN  /\ folders' = IF allowed THEN [folders EXCEPT ![f] = new] ELSE folders
           /\ Finish(s, "setFolder", [id |-> f, new |-> new], Denied(allowed), 0, 1, Pre(s))
    /\ UNCHANGED <<notes, index, nextNoteId, nextFolderId, clock, user, extra>>
    /\ UNCH_listen

\* update(ref(db, `folders/${f}`), {noteIds: ids, updatedAt: now})
RulesUpdateNoteIds(s, f, ids) ==
    /\ call[s] = IdleCall
    /\ LET allowed == WriteGranted(user[s], folders[f])
       IN  /\ folders' = IF allowed THEN SetFolderNoteIds(folders, f, ids, clock)
                         ELSE folders
           /\ Finish(s, "updateNoteIds", [id |-> f, ids |-> ids], Denied(allowed),
                     0, 1, Pre(s))
    /\ UNCHANGED <<notes, index, nextNoteId, nextFolderId, clock, user, extra>>
    /\ UNCH_listen

\* remove(ref(db, `folders/${f}`))
RulesRemoveFolder(s, f) ==
    /\ call[s] = IdleCall
    /\ LET allowed == WriteGranted(user[s], folders[f])
       IN  /\ folders' = IF allowed THEN [folders EXCEPT ![f] = NoFolder] ELSE folders
           /\ Finish(s, "removeFolder", [id |-> f], Denied(allowed), 0, 1, Pre(s))
    /\ UNCHANGED <<notes, index, nextNoteId, nextFolderId, clock, user, extra>>
    /\ UNCH_listen

\* The records a client can send: any userId, a title or name that is
\* empty or not.
NotesSent ==
    {NoteRec(title, <<>>, 0, u, Undefined, clock, clock) :
        title \in {<<>>, <<"t">>}, u \in Users}

FoldersSent ==
    {FolderRec(name, u, <<>>, clock, clock) : name \in {<<>>, <<"w">>}, u \in Users}

NextRules ==
    \/ \E s \in SignedIn, n \in NoteIds, new \in NotesSent : RulesSetNote(s, n, new)
    \/ \E s \in SignedIn, n \in NoteIds : RulesRemoveNote(s, n)
    \/ \E s \in SignedIn, f \in FolderIds, new \in FoldersSent : RulesSetFolder(s, f, new)
    \/ \E s \in SignedIn, f \in FolderIds, ids \in {<<>>, <<1>>} :
          RulesUpdateNoteIds(s, f, ids)
    \/ \E s \in SignedIn, f \in FolderIds : RulesRemoveFolder(s, f)

SpecRules == Init /\ [][NextRules]_vars

(***************************************************************************)
(* useFolders: cleanup and the runs of the listener effect.  The effect    *)
(* runs again when `user` is a new object (AuthContext calls setUser with  *)
(* a copy of the user) and when the user signs out.                        *)
(***************************************************************************)
\* The teardown the effect returns: isMounted = false, and the cleanup
\* function, which releases the listeners of the run, when .then has
\* stored it.
TornDown(sub) ==
    [sub EXCEPT !.active = FALSE, !.assigned = FALSE, !.mine = 0,
                !.open = IF sub.assigned THEN sub.open - sub.mine ELSE sub.open,
                !.folderId = Null, !.data = <<>>, !.got = 0, !.folder = NoFolder]

\* cleanup(): the cached list is emptied, pendingUpdates cleared, both
\* processing flags reset and every listener released.  Promises of a pass
\* in flight are not cancelled.
Cleanup(s) ==
    /\ cache' = [cache EXCEPT ![s] = [f \in FolderIds |-> NoFolder]]
    /\ pendingUpdates' = [pendingUpdates EXCEPT ![s] = <<>>]
    /\ recon' = [recon EXCEPT ![s] = [isProcessing |-> FALSE, ids |-> <<>>]]
    /\ subs' = [subs EXCEPT ![s] = {}]
    /\ pendingFolder' = [pendingFolder EXCEPT ![s] = {}]
    /\ passes' = [passes EXCEPT ![s] = [i \in DOMAIN @ |-> [@[i] EXCEPT !.torn = TRUE]]]

\* The effect runs again for the same signed-in user: the cleanup of the
\* previous run, then a new listener on users/{uid}, whose first value
\* event is due.
Resubscribe(s) ==
    /\ Mounted(s)
    /\ Len(passes[s]) < MaxPasses
    /\ Cleanup(s)
    /\ pendingUser' = [pendingUser EXCEPT ![s] = TRUE]
    /\ UNCHANGED <<notes, folders, index, nextNoteId, nextFolderId, clock, user,
                   role, userRole, view, noteSub, call, last>>

\* The user signs out.  useFolders: the cleanup of the previous run, then
\* the run of the effect with no user, which calls cleanup() again.
\* useNotes: the teardown of the previous run, then `setNotes([])`.
SignOut(s) ==
    /\ Mounted(s)
    /\ call[s] = IdleCall
    /\ user' = [user EXCEPT ![s] = NoUser]
    /\ userRole' = [userRole EXCEPT ![s] = NoRole]
    /\ Cleanup(s)
    /\ pendingUser' = [pendingUser EXCEPT ![s] = FALSE]
    /\ noteSub' = [noteSub EXCEPT ![s] = IF @.active THEN TornDown(@) ELSE @]
    /\ view' = [view EXCEPT ![s] = <<>>]
    /\ UNCHANGED <<notes, folders, index, nextNoteId, nextFolderId, clock,
                   role, call, last>>

(***************************************************************************)
(* SpecRecon: createFolder and deleteFolder, the listeners of useFolders,  *)
(* and the runs of its effect.                                             *)
(***************************************************************************)
StartReconCall ==
    \E s \in SignedIn :
        \/ \E name \in FolderNames : CreateFolder(s, name)
        \/ \E f \in FolderArgs : DeleteFolder(s, f)

EffectRuns ==
    \E s \in Sessions :
        \/ Resubscribe(s)
        \/ SignOut(s)

NextRecon ==
    \/ AllIdle /\ StartReconCall
    \/ StepFolderCall
    \/ Listeners
    \/ EffectRuns

SpecRecon == Init /\ [][NextRecon]_vars

(***************************************************************************)
(* useNotes: the listener effect.  noteSub[s] is the state of the hook     *)
(* instance of session s: `active` is isMounted of the latest run of the   *)
(* effect, `assigned` whether the .then callback has stored the cleanup    *)
(* function of that run, `mine` the listeners that run holds open, `open`  *)
(* the listeners the instance holds open, `folderId` the argument of the   *)
(* hook, `data` the notesData of the last run of handleNotesUpdate, `got`  *)
(* the callbacks that have run (1: handleNotesUpdate, 2: the folder        *)
(* listener set up by it) and `folder` the folder record the folder        *)
(* listener was last called with.  The closures of a run are dropped with  *)
(* it.                                                                     *)
(***************************************************************************)
RECURSIVE Unseen(_, _)
\* `!seenIds.has(noteId)` with `seenIds.add(noteId)`
Unseen(ids, seenIds) ==
    IF ids = <<>> THEN <<>>
    ELSE IF Head(ids) \in seenIds THEN Unseen(Tail(ids), seenIds)
    ELSE <<Head(ids)>> \o Unseen(Tail(ids), seenIds \cup {Head(ids)})

\* query(ref(db, 'notes'), orderByChild('userId'), equalTo(user.uid))
NotesQuery(ns, u) ==
    SelectSeq([n \in NoteIds |-> n], LAMBDA n : ns[n].exists /\ ns[n].userId = u)

\* notesData of handleNotesUpdate
NotesData(ns, u) ==
    LET own == SelectSeq(NotesQuery(ns, u), LAMBDA n : ns[n].userId = u)
        ids == Unseen(own, {})
    IN  [i \in DOMAIN ids |-> ViewEntry(ids[i], ns[ids[i]].userId, ns[ids[i]].folderId)]

\* `notesData.filter(note => folderData.noteIds.includes(note.id))`
FilteredNotes(data, fs, f, u) ==
    IF ~fs[f].exists \/ fs[f].userId # u THEN <<>>
    ELSE SelectSeq(data, LAMBDA e : Includes(fs[f].noteIds, e.id))

\* A run of the effect with a user: setupListeners() opens the listener on
\* the notes query before it returns its promise.
NotesEffect(s, fid) ==
    /\ Mounted(s)
    /\ ~noteSub[s].active
    /\ noteSub[s].open + 2 <= MaxListeners
    /\ noteSub' = [noteSub EXCEPT ![s] =
                     [active |-> TRUE, assigned |-> FALSE, mine |-> 1,
                      open |-> @.open + 1, folderId |-> fid, data |-> <<>>,
                      got |-> 0, folder |-> NoFolder]]
    /\ UNCHANGED <<notes, folders, index, nextNoteId, nextFolderId, clock, user,
                   role, userRole, passes, pendingUpdates, view, call, last>>
    /\ UNCH_listen

\* `setupListeners().then(cb => { cleanup = cb || undefined; })`
NotesSetupResolved(s) ==
    /\ noteSub[s].active
    /\ ~noteSub[s].assigned
    /\ noteSub' = [noteSub EXCEPT ![s].assigned = TRUE]
    /\ UNCHANGED <<notes, folders, index, nextNoteId, nextFolderId, clock, user,
                   role, userRole, passes, pendingUpdates, view, call, last>>
    /\ UNCH_listen

\* The teardown of a run: unmount, or a new `user`, `folderId` or `db`.
NotesTeardown(s) ==
    /\ noteSub[s].active
    /\ noteSub' = [noteSub EXCEPT ![s] = TornDown(@)]
    /\ UNCHANGED <<notes, folders, index, nextNoteId, nextFolderId, clock, user,
                   role, userRole, passes, pendingUpdates, view, call, last>>
    /\ UNCH_listen

\* handleNotesUpdate: the list of all notes, or notesData handed to a new
\* listener on the folder of the hook, after the release of the old one.
HandleNotesUpdate(s) ==
    /\ noteSub[s].active
    /\ LET sub == noteSub[s]
           notesData == NotesData(notes, user[s])
       IN  IF notesData = <<>>
           THEN /\ view' = [view EXCEPT ![s] = <<>>]
                /\ noteSub' = [noteSub EXCEPT ![s].data = notesData, ![s].got = 1]
           ELSE IF Truthy(sub.folderId)
           THEN /\ noteSub' = [noteSub EXCEPT ![s].data = notesData,
                                              ![s].got = 1,
                                              ![s].mine = 2,
                                              ![s].open = @ + (2 - sub.mine)]
                /\ UNCHANGED view
           ELSE /\ view' = [view EXCEPT ![s] = notesData]
                /\ noteSub' = [noteSub EXCEPT ![s].data = notesData, ![s].got = 1]
    /\ UNCHANGED <<notes, folders, index, nextNoteId, nextFolderId, clock, user,
                   role, userRole, passes, pendingUpdates, call, last>>
    /\ UNCH_listen

\* The callback of the folder listener of useNotes.
NotesFolderListener(s) ==
    /\ noteSub[s].active
    /\ noteSub[s].mine = 2
    /\ view' = [view EXCEPT ![s] =
                  FilteredNotes(noteSub[s].data, folders, noteSub[s].folderId, user[s])]
    /\ noteSub' = [noteSub EXCEPT ![s].got = 2,
                                  ![s].folder = folders[noteSub[s].folderId]]
    /\ UNCHANGED <<notes, folders, index, nextNoteId, nextFolderId, clock, user,
                   role, userRole, passes, pendingUpdates, call, last>>
    /\ UNCH_listen

(***************************************************************************)
(* SpecView: two users create folders and notes, one call at a time; the   *)
(* session s1 also moves notes, and the listener effect of its useNotes    *)
(* instance runs, is torn down and has its callbacks arrive in any order.  *)
(***************************************************************************)
ViewFolders == FoldersCreated \cup {Null}

ViewSessions == {"s1"}

StartViewCall ==
    \/ \E s \in SignedIn :
          \/ CreateFolder(s, <<"w">>)
          \/ \E f \in FoldersCreated : CreateNote(s, <<"t">>, <<>>, f)
    \/ \E s \in SignedIn \cap ViewSessions, n \in NoteArgs, f \in ViewFolders :
          MoveNoteToFolder(s, n, f)

StepViewCall ==
    \E s \in Sessions :
        \/ CreateFolderCheck(s)
        \/ CreateFolderReadIndex(s)
        \/ CreateFolderWrite(s)
        \/ CreateNoteGetFolder(s)
        \/ CreateNoteUpdateFolder(s)
        \/ MoveGetTarget(s)
        \/ MoveGetCurrent(s)
        \/ MoveWrite(s)

NotesListeners ==
    \E s \in ViewSessions :
        \/ \E fid \in ViewFolders : NotesEffect(s, fid)
        \/ NotesSetupResolved(s)
        \/ NotesTeardown(s)
        \/ HandleNotesUpdate(s)
        \/ NotesFolderListener(s)

NextView ==
    \/ AllIdle /\ StartViewCall
    \/ StepViewCall
    \/ NotesListeners
    \/ \E s \in ViewSessions : SignOut(s)

SpecView == Init /\ [][NextView]_vars

(***************************************************************************)
(* SpecViewRace: two sessions of one user.  One folder and one note in it  *)
(* are created while nothing else runs; the moveNoteToFolder calls of the  *)
(* two sessions interleave step by step, and the useNotes listeners of s1  *)
(* run as in SpecView.                                                     *)
(***************************************************************************)
StartViewRaceCall ==
    \/ AllIdle /\ FolderArgs = {} /\ CreateFolder("s1", <<"w">>)
    \/ AllIdle /\ NoteArgs = {} /\ \E f \in FoldersCreated : CreateNote("s1", <<"t">>, <<>>, f)
    \/ \E s \in SignedIn, n \in NoteArgs, f \in ViewFolders :
          MoveNoteToFolder(s, n, f)

NextViewRace ==
    \/ StartViewRaceCall
    \/ StepViewCall
    \/ NotesListeners

SpecViewRace == InitSameUser /\ [][NextViewRace]_vars

(***************************************************************************)
(* SpecSharedFolders: two sessions of one user.  s1 creates folders, and   *)
(* either session deletes them, one call at a time; the listeners of       *)
(* useFolders of s1 run at any moment.                                     *)
(***************************************************************************)
StartSharedFolderCall ==
    \/ \E name \in RaceNames : CreateFolder("s1", name)
    \/ \E s \in SignedIn, id \in FolderArgs : DeleteFolder(s, id)

NextSharedFolders ==
    \/ AllIdle /\ StartSharedFolderCall
    \/ StepFolderCall
    \/ HandleUserSnapshot("s1")
    \/ UpdateFoldersListRun("s1")
    \/ \E f \in FolderIds : FolderListener("s1", f)

SpecSharedFolders == InitSameUser /\ [][NextSharedFolders]_vars

(***************************************************************************)
(* SpecScenario: the scenarios of the specification.  User A (session s1)  *)
(* creates the folder "Personal", creates the note {title: "Todo",         *)
(* content: "buy milk"} in it, moves it, and calls updateNote with the     *)
(* content "buy milk and eggs", while Date.now() moves on or stands still. *)
(***************************************************************************)
Personal == <<"P", "e", "r", "s", "o", "n", "a", "l">>

Todo == <<"T", "o", "d", "o">>

BuyMilk == <<"b", "u", "y", " ", "m", "i", "l", "k">>

BuyMilkAndEggs == BuyMilk \o <<" ", "a", "n", "d", " ", "e", "g", "g", "s">>

ScenarioUpdates ==
    {NewValues({"content"}, <<>>, c, 0, Undefined) : c \in {BuyMilk, BuyMilkAndEggs}}
    \cup {NewValues({"title"}, Todo, <<>>, 0, Undefined)}

StartScenarioCall ==
    \/ CreateFolder("s1", Personal)
    \/ \E f \in FoldersCreated : CreateNote("s1", Todo, BuyMilk, f)
    \/ \E n \in NoteArgs : MoveNoteToFolder("s1", n, Null)
    \/ \E n \in NoteArgs, nv \in ScenarioUpdates : UpdateNote("s1", n, nv)

StepScenarioCall ==
    \E s \in Sessions :
        \/ CreateFolderCheck(s)
        \/ CreateFolderReadIndex(s)
        \/ CreateFolderWrite(s)
        \/ CreateNoteGetFolder(s)
        \/ CreateNoteUpdateFolder(s)
        \/ MoveGetCurrent(s)
        \/ MoveWrite(s)
        \/ UpdateNoteWritePlain(s)

NextScenario ==
    \/ AllIdle /\ StartScenarioCall
    \/ StepScenarioCall
    \/ Tick

SpecScenario == Init /\ [][NextScenario]_vars

(***************************************************************************)
(* SpecDeleteFolder: createFolder, createNote and deleteFolder, one call   *)
(* at a time, where the store may reject removals of notes.                *)
(***************************************************************************)
StartDeleteFolderCall ==
    \E s \in SignedIn :
        \/ \E name \in FolderNames : CreateFolder(s, name)
        \/ \E f \in FoldersCreated : CreateNote(s, <<"t">>, <<>>, f)
        \/ \E f \in FolderArgs : DeleteFolder(s, f)

StepDeleteFolderCall ==
    \E s \in Sessions :
        \/ CreateFolderCheck(s)
        \/ CreateFolderReadIndex(s)
        \/ CreateFolderWrite(s)
        \/ CreateNoteGetFolder(s)
        \/ CreateNoteUpdateFolder(s)
        \/ DeleteFolderRemoveNotes(s)
        \/ DeleteFolderRemoveNotesFail(s)
        \/ DeleteFolderGetUser(s)
        \/ DeleteFolderWrite(s)

NextDeleteFolder ==
    \/ AllIdle /\ StartDeleteFolderCall
    \/ StepDeleteFolderCall

SpecDeleteFolder == Init /\ [][NextDeleteFolder]_vars

(***************************************************************************)
(* SpecRepair: createFolder, createNote and deleteFolder of the session    *)
(* s1, one call at a time, with removals the store may reject, and the     *)
(* listeners and the reconciliation pass of useFolders.                    *)
(***************************************************************************)
StartRepairCall ==
    \/ \E name \in FolderNames : CreateFolder("s1", name)
    \/ \E f \in FoldersCreated : CreateNote("s1", <<"t">>, <<>>, f)
    \/ \E f \in FolderArgs : DeleteFolder("s1", f)

NextRepair ==
    \/ AllIdle /\ StartRepairCall
    \/ StepDeleteFolderCall
    \/ Listeners

SpecRepair == Init /\ [][NextRepair]_vars

(***************************************************************************)
(* AuthContext.updateUserRole(userId, role) and the rules of users/{uid}.  *)
(* Every user of Users has a profile record under users/{uid}.             *)
(***************************************************************************)
ErrNotAuth == "Not authenticated"
ErrOwnRole == "Cannot change your own role"
ErrInsufficient == "Insufficient permissions"

\* users/$uid/.write grants below it, on role too; users/$uid/role/.write
\* grants on its own.
UserWriteGrant(p, uid, rs) ==
    p # NoUser /\ (p = uid \/ RoleOf(rs, p) = "root_admin")

RoleWriteGrant(p, r, rs) ==
    p # NoUser /\ RoleOf(rs, p) = "root_admin" /\ r \in {"user", "admin"}

RoleWriteAllowed(p, uid, r, rs) ==
    UserWriteGrant(p, uid, rs) \/ RoleWriteGrant(p, r, rs)

\* `user.role !== 'root_admin' && (role === 'root_admin' ||
\* userData.role === 'root_admin')`
InsufficientPermissions(callerRole, r, targetRole) ==
    callerRole # "root_admin" /\ (r = "root_admin" \/ targetRole = "root_admin")

\* The two tests before the first await.
UpdateUserRole(s, userId, r) ==
    /\ call[s] = IdleCall
    /\ LET args == [userId |-> userId, role |-> r]
       IN  IF user[s] = NoUser
           THEN Finish(s, "updateUserRole", args, ErrNotAuth, 0, 0, Pre(s))
           ELSE IF user[s] = userId
           THEN Finish(s, "updateUserRole", args, ErrOwnRole, 0, 0, Pre(s))
           ELSE /\ call' = [call EXCEPT ![s] =
                       [op |-> "updateUserRole", pc |-> "get", uid |-> user[s],
                        args |-> args, wrote |-> 0, pre |-> Pre(s),
                        repeat |-> Repeats(s, "updateUserRole", args)]]
                /\ last' = NoCall
    /\ UNCHANGED <<notes, folders, index, nextNoteId, nextFolderId, clock, user, extra>>
    /\ UNCH_listen

\* `await get(userRef)` and the test of the roles.
UpdateUserRoleGet(s) ==
    /\ call[s].op = "updateUserRole"
    /\ call[s].pc = "get"
    /\ LET c == call[s]
       IN  IF InsufficientPermissions(userRole[s], c.args.role, role[c.args.userId])
           THEN Finish(s, "updateUserRole", c.args, ErrInsufficient, 0, c.wrote, c.pre)
           ELSE /\ call' = [call EXCEPT ![s].pc = "write"]
                /\ UNCHANGED last
    /\ UNCHANGED <<notes, folders, index, nextNoteId, nextFolderId, clock, user, extra>>
    /\ UNCH_listen

\* `await update(userRef, { role })`
UpdateUserRoleWrite(s) ==
    /\ call[s].op = "updateUserRole"
    /\ call[s].pc = "write"
    /\ LET c == call[s]
           allowed == RoleWriteAllowed(c.uid, c.args.userId, c.args.role, role)
       IN  /\ role' = IF allowed THEN [role EXCEPT ![c.args.userId] = c.args.role]
                      ELSE role
           /\ Finish(s, "updateUserRole", c.args, Denied(allowed), 0, c.wrote + 1, c.pre)
    /\ UNCHANGED <<notes, folders, index, nextNoteId, nextFolderId, clock, user,
                   userRole, passes, pendingUpdates, view, noteSub>>
    /\ UNCH_listen

\* update(ref(db, `users/${uid}`), { role: r }) sent by any signed-in client.
RulesSetRole(s, uid, r) ==
    /\ call[s] = IdleCall
    /\ LET allowed == RoleWriteAllowed(user[s], uid, r, role)
       IN  /\ role' = IF allowed THEN [role EXCEPT ![uid] = r] ELSE role
           /\ Finish(s, "setRole", [userId |-> uid, role |-> r], Denied(allowed),
                     0, 1, Pre(s))
    /\ UNCHANGED <<notes, folders, index, nextNoteId, nextFolderId, clock, user,
                   userRole, passes, pendingUpdates, view, noteSub>>
    /\ UNCH_listen

\* The auth-state listener reloads the profile: user.role is the stored role.
ReloadUserRole(s) ==
    /\ user[s] # NoUser
    /\ userRole[s] # role[user[s]]
    /\ userRole' = [userRole EXCEPT ![s] = role[user[s]]]
    /\ UNCHANGED <<notes, folders, index, nextNoteId, nextFolderId, clock, user,
                   call, last, role, passes, pendingUpdates, view, noteSub>>
    /\ UNCH_listen

(***************************************************************************)
(* SpecRoles: role changes, one call at a time, by the root administrator  *)
(* u1, the user u2 and a client that is not signed in.                     *)
(***************************************************************************)
StartRoleCall ==
    \/ \E s \in Sessions, uid \in Users, r \in Roles : UpdateUserRole(s, uid, r)
    \/ \E s \in SignedIn, uid \in Users, r \in Roles : RulesSetRole(s, uid, r)

NextRoles ==
    \/ AllIdle /\ StartRoleCall
    \/ \E s \in Sessions : UpdateUserRoleGet(s)
    \/ \E s \in Sessions : UpdateUserRoleWrite(s)
    \/ \E s \in Sessions : ReloadUserRole(s)

SpecRoles == Init /\ [][NextRoles]_vars

(***************************************************************************)
(* Properties.                                                             *)
(***************************************************************************)
StoreUnchangedByLast ==
    /\ notes = last.pre.notes
    /\ folders = last.pre.folders
    /\ index = last.pre.index

\* C1: after any sequence of completed, non-overlapping calls, for every
\* note n and folder f: n.folderId = f.id if and only if n.id is in
\* f.noteIds.
C1_MembershipSymmetry ==
    AllIdle =>
        \A n \in NoteIds, f \in FolderIds :
            (notes[n].exists /\ folders[f].exists) =>
                (notes[n].folderId = f <=> Includes(folders[f].noteIds, n))

\* C2: no state between the steps of one createNote, updateNote or
\* moveNoteToFolder call has the call's note naming a folder of the caller
\* whose noteIds lacks the note's id: the note side and the folder side
\* change in one store write.
C2_AtomicMembership ==
    \A s \in Sessions :
        call[s].op \in {"createNote", "updateNote", "moveNoteToFolder"} =>
            LET n == IF call[s].op = "createNote" THEN call[s].noteId
                     ELSE call[s].args.noteId
            IN  \A f \in FolderIds :
                    (/\ notes[n].exists
                     /\ notes[n].folderId = f
                     /\ FolderOwned(folders, f, call[s].uid))
                    => Includes(folders[f].noteIds, n)

\* C3: a moveNoteToFolder(n, t) call that repeats the successful call made
\* just before it issues no store write and leaves the store as it was.
C3_SecondMoveIsNoOp ==
    (last.op = "moveNoteToFolder" /\ last.repeat /\ last.result = "ok") =>
        (last.wrote = 0 /\ StoreUnchangedByLast)

\* C4: updateNote or deleteNote on a note that does not exist or whose
\* userId is not the caller's throws and leaves notes, folders and the
\* folder-id index as they were.
C4_ForeignNoteRejected ==
    (/\ last.op \in {"updateNote", "deleteNote"}
     /\ last.user # NoUser
     /\ ~NoteOwned(last.pre.notes, last.args.noteId, last.user))
    => (/\ last.result = ErrNote
        /\ last.wrote = 0
        /\ StoreUnchangedByLast)

\* C4 witness: a deleteNote on another user's existing note has thrown.
C4_Witness ==
    /\ last.op = "deleteNote"
    /\ last.user # NoUser
    /\ last.pre.notes[last.args.noteId].exists
    /\ last.pre.notes[last.args.noteId].userId # last.user
    /\ last.result = ErrNote

\* C5: when createFolder calls run one after another, a call whose trimmed
\* name equals, ignoring case, the name of a folder listed in the caller's
\* folder-id index throws 'A folder with this name already exists' and
\* writes nothing, whether or not the cached list holds that folder; a
\* name that only a folder of another user has does not make the call fail.
C5_DuplicateFolderName ==
    (last.op = "createFolder" /\ last.user # NoUser /\ Trim(last.args.name) # <<>>) =>
        LET name == ToLowerCase(Trim(last.args.name))
            p == last.pre
            own == {f \in FolderIds : Includes(p.index[last.user], f)
                                       /\ p.folders[f].exists}
            others == {f \in FolderIds : p.folders[f].exists
                                          /\ p.folders[f].userId # last.user}
            taken(S) == \E f \in S : ToLowerCase(p.folders[f].name) = name
        IN  /\ taken(own) => (/\ last.result = ErrExists
                              /\ last.wrote = 0
                              /\ nextFolderId = p.nextFolderId
                              /\ StoreUnchangedByLast)
            /\ (taken(others) /\ ~taken(own)) => last.result = "ok"

\* C5 witness: createFolder has thrown the duplicate-name error for a name
\* that differs in case from that of a folder of the caller's index which
\* the cached list did not hold.
C5_Witness ==
    /\ last.op = "createFolder"
    /\ last.result = ErrExists
    /\ \E f \in FolderIds :
           /\ Includes(last.pre.index[last.user], f)
           /\ last.pre.folders[f].exists
           /\ ~last.pre.cached[f].exists
           /\ last.pre.folders[f].name # Trim(last.args.name)
           /\ ToLowerCase(last.pre.folders[f].name) = ToLowerCase(Trim(last.args.name))

\* C6: after a successful deleteFolder(f), no note whose id was in
\* f.noteIds exists, the folder record does not exist and f is not in the
\* owner's folder-id index.
C6_CascadeDelete ==
    (last.op = "deleteFolder" /\ last.result = "ok") =>
        LET f == last.args.id
        IN  /\ \A n \in NoteIds :
                   Includes(last.pre.folders[f].noteIds, n) => ~notes[n].exists
            /\ ~folders[f].exists
            /\ ~Includes(index[last.user], f)

\* C6 witness: a deleteFolder of a folder that listed two notes succeeded.
C6_Witness ==
    /\ last.op = "deleteFolder"
    /\ last.result = "ok"
    /\ Len(last.pre.folders[last.args.id].noteIds) = 2
    /\ Includes(last.pre.index[last.user], last.args.id)

\* C7: in every state reached by createNote and updateNote calls, with any
\* combination of the optional fields of updateNote, each note's
\* contentLength is the length of its content.
C7_ContentLength ==
    AllIdle =>
        \A n \in NoteIds :
            notes[n].exists => notes[n].contentLength = Len(notes[n].content)

\* C8: after any sequence of completed calls, a note's folderId, when set,
\* names a folder record that exists and has the note's userId.
C8_FolderIdOwned ==
    AllIdle =>
        \A n \in NoteIds :
            (notes[n].exists /\ Truthy(notes[n].folderId)) =>
                FolderOwned(folders, notes[n].folderId, notes[n].userId)

\* C9: createNote without a signed-in user, or with a null, undefined or
\* empty folderId, throws before an id is generated and writes nothing.
C9_CreateNoteValidation ==
    (/\ last.op = "createNote"
     /\ (last.user = NoUser \/ last.args.folderId \in {Null, Undefined, EmptyStr}))
    => (/\ last.result \in {ErrAuth, ErrNoFolder}
        /\ last.wrote = 0
        /\ nextNoteId = last.pre.nextNoteId
        /\ StoreUnchangedByLast)

\* C9 witness: a signed-in user's createNote with an undefined folderId has
\* thrown.
C9_Witness ==
    /\ last.op = "createNote"
    /\ last.user # NoUser
    /\ last.args.folderId = Undefined
    /\ last.result = ErrNoFolder

\* C10: moveNoteToFolder to a target, or updateNote to a new folderId, that
\* does not exist or is another user's throws and changes nothing: the note
\* keeps its folderId and its folder keeps the note's id.
C10_BadTargetRejected ==
    /\ (/\ last.op = "moveNoteToFolder"
        /\ Truthy(last.args.targetFolderId)
        /\ NoteOwned(last.pre.notes, last.args.noteId, last.user)
        /\ ~FolderOwned(last.pre.folders, last.args.targetFolderId, last.user))
       => (/\ last.result = ErrTarget
           /\ last.wrote = 0
           /\ StoreUnchangedByLast)
    /\ (/\ last.op = "updateNote"
        /\ "folderId" \in last.args.newValues.has
        /\ Truthy(last.args.newValues.folderId)
        /\ NoteOwned(last.pre.notes, last.args.noteId, last.user)
        /\ last.args.newValues.folderId
              # last.pre.notes[last.args.noteId].folderId
        /\ ~FolderOwned(last.pre.folders, last.args.newValues.folderId, last.user))
       => (/\ last.result = ErrSelected
           /\ last.wrote = 0
           /\ StoreUnchangedByLast)

\* C10 witness: an updateNote that would move a filed note into another
\* user's folder has thrown, and the note is still listed by its folder.
C10_Witness ==
    /\ last.op = "updateNote"
    /\ last.result = ErrSelected
    /\ LET n == last.args.noteId
           f == last.args.newValues.folderId
       IN  /\ folders[f].exists
           /\ folders[f].userId # last.user
           /\ Truthy(notes[n].folderId)
           /\ Includes(folders[notes[n].folderId].noteIds, n)

\* C11: in every reachable state, concurrent createFolder calls of two
\* sessions of one user included, no two folder records of the same user
\* have names that are equal ignoring case.
C11_UniqueFolderNames ==
    \A f, g \in FolderIds :
        (/\ f # g
         /\ folders[f].exists /\ folders[g].exists
         /\ folders[f].userId # NoUser
         /\ folders[f].userId = folders[g].userId)
        => ToLowerCase(folders[f].name) # ToLowerCase(folders[g].name)

\* C12: under the deployed rules every write or delete by a signed-in
\* principal that touches an existing notes/{id} or folders/{id} record
\* whose stored userId is another user's is rejected.
C12_CrossUserWriteRejected ==
    /\ (/\ last.op \in {"setNote", "removeNote"}
        /\ last.pre.notes[last.args.id].exists
        /\ last.pre.notes[last.args.id].userId \in Users \ {last.user})
       => (last.result = ErrDenied /\ StoreUnchangedByLast)
    /\ (/\ last.op \in {"setFolder", "updateNoteIds", "removeFolder"}
        /\ last.pre.folders[last.args.id].exists
        /\ last.pre.folders[last.args.id].userId \in Users \ {last.user})
       => (last.result = ErrDenied /\ StoreUnchangedByLast)

\* C13: through updateUserRole and the rules, a principal whose stored role
\* is not root_admin never changes another user's role, and a change of
\* another user's role sets it to 'user' or 'admin', never to 'root_admin'.
C13_RoleChangeRestricted ==
    (last.op \in {"updateUserRole", "setRole"} /\ last.args.userId # last.user) =>
        /\ RoleOf(last.pre.role, last.user) # "root_admin" => role = last.pre.role
        /\ role # last.pre.role => last.args.role \in {"user", "admin"}

\* C14: a hook instance never has two passes of updateFoldersList in flight.
C14_OnePassInFlight ==
    \A s \in Sessions : Len(passes[s]) <= 1

\* C15: a reconciliation request that arrives while a pass is in flight is
\* put into pendingUpdates.
C15_RequestsQueued ==
    [][\A s \in Sessions :
          (/\ pendingUser[s] /\ ~pendingUser'[s]
           /\ Mounted(s) /\ Mounted(s)'
           /\ index[user[s]] # <<>>
           /\ recon[s].isProcessing)
          => Elems(index[user[s]]) \subseteq Elems(pendingUpdates'[s])]_vars

\* C16: the visible note list of a session never holds two entries with the
\* same id, and holds only notes of the session's user.
C16_VisibleListSound ==
    \A s \in Sessions :
        /\ \A i, j \in DOMAIN view[s] : view[s][i].id = view[s][j].id => i = j
        /\ \A i \in DOMAIN view[s] : view[s][i].userId = user[s]

\* C16 witness: a move has just replaced the entry of a visible note, in a
\* store that also holds a note of the other user.
C16_Witness ==
    /\ last.op = "moveNoteToFolder"
    /\ last.result = "ok"
    /\ \E i \in DOMAIN view[last.sess] :
          /\ view[last.sess][i].id = last.args.noteId
          /\ view[last.sess][i].folderId # last.pre.notes[last.args.noteId].folderId
    /\ \E n \in NoteIds : notes[n].exists /\ notes[n].userId # last.user

\* C17: once the listener effect of useNotes or useFolders has been torn
\* down, no store listener it opened is still open, and the cached folder
\* list is empty.
C17_ListenersReleased ==
    \A s \in Sessions :
        /\ ~noteSub[s].active => noteSub[s].open = 0
        /\ ~Mounted(s) => /\ subs[s] = {}
                          /\ \A f \in FolderIds : ~cache[s][f].exists

\* C18: a successful updateNote leaves the note's updatedAt strictly greater
\* than it was before the call, Date.now() never going backwards.
C18_UpdatedAtIncreases ==
    (last.op = "updateNote" /\ last.result = "ok") =>
        notes[last.args.noteId].updatedAt
            > last.pre.notes[last.args.noteId].updatedAt

\* C19 as stated: the note created with content "buy milk" has contentLength
\* 9, and after updateNote with content "buy milk and eggs" contentLength 18.
C19_StatedLengths ==
    /\ (last.op = "createNote" /\ last.result = "ok" /\ last.args.content = BuyMilk)
          => notes[last.ret].contentLength = 9
    /\ (last.op = "updateNote" /\ last.result = "ok"
        /\ last.args.newValues.content = BuyMilkAndEggs)
          => notes[last.args.noteId].contentLength = 18

\* C19: the note created with content "buy milk" has contentLength 8, and
\* after updateNote with content "buy milk and eggs" contentLength 17.
C19_ScenarioLengths ==
    /\ (last.op = "createNote" /\ last.result = "ok" /\ last.args.content = BuyMilk)
          => notes[last.ret].contentLength = 8
    /\ (last.op = "updateNote" /\ last.result = "ok"
        /\ last.args.newValues.content = BuyMilkAndEggs)
          => notes[last.args.noteId].contentLength = 17

\* C19 witness: updateNote has just replaced "buy milk" by "buy milk and
\* eggs" in the note "Todo" that createNote made in the folder "Personal".
C19_Witness ==
    /\ last.op = "updateNote"
    /\ last.result = "ok"
    /\ last.args.newValues.content = BuyMilkAndEggs
    /\ last.pre.notes[last.args.noteId].content = BuyMilk
    /\ notes[last.args.noteId].title = Todo
    /\ notes[last.args.noteId].content = BuyMilkAndEggs
    /\ \E f \in FolderIds : folders[f].exists /\ folders[f].name = Personal

\* C20: when two sessions of one user overlap in adding notes to the same
\* folder (createNote or moveNoteToFolder), then once both calls are
\* complete the folder's noteIds holds the id of every note whose folderId
\* names it, and every id it holds is of a note that names it.
C20_ConcurrentAddsKeepSymmetry ==
    AllIdle =>
        \A n \in NoteIds, f \in FolderIds :
            (notes[n].exists /\ folders[f].exists) =>
                (notes[n].folderId = f <=> Includes(folders[f].noteIds, n))

\* C21: a successful updateNote whose folderId is absent, or equal to the
\* note's folderId, changes the record notes/{id} only, and leaves the
\* note's userId, createdAt and folderId as they were.
C21_PlainUpdateFrame ==
    (/\ last.op = "updateNote"
     /\ last.result = "ok"
     /\ \/ "folderId" \notin last.args.newValues.has
        \/ last.args.newValues.folderId = last.pre.notes[last.args.noteId].folderId)
    => LET n == last.args.noteId
       IN  /\ folders = last.pre.folders
           /\ index = last.pre.index
           /\ \A m \in NoteIds \ {n} : notes[m] = last.pre.notes[m]
           /\ notes[n].exists
           /\ notes[n].userId = last.pre.notes[n].userId
           /\ notes[n].createdAt = last.pre.notes[n].createdAt
           /\ notes[n].folderId = last.pre.notes[n].folderId

\* C21 witness: an updateNote that names the folder the note is in, and a
\* new title, has changed the note's title.
C21_Witness ==
    /\ last.op = "updateNote"
    /\ last.result = "ok"
    /\ last.args.newValues.has = {"title", "folderId"}
    /\ Truthy(last.args.newValues.folderId)
    /\ last.args.newValues.folderId = last.pre.notes[last.args.noteId].folderId
    /\ Includes(folders[last.args.newValues.folderId].noteIds, last.args.noteId)
    /\ notes[last.args.noteId].title = last.args.newValues.title

\* C22: a successful updateNote that gives a title or a content together
\* with a folderId other than the note's stores the title and the content
\* given, with contentLength the length of the content, and moves the note.
C22_MoveKeepsEdits ==
    (/\ last.op = "updateNote"
     /\ last.result = "ok"
     /\ "folderId" \in last.args.newValues.has
     /\ last.args.newValues.folderId # last.pre.notes[last.args.noteId].folderId)
    => LET n == last.args.noteId
           nv == last.args.newValues
       IN  /\ "title" \in nv.has => notes[n].title = nv.title
           /\ "content" \in nv.has => /\ notes[n].content = nv.content
                                      /\ notes[n].contentLength = Len(nv.content)
           /\ notes[n].folderId = nv.folderId

\* C23: a successful deleteNote(id) removes the note record and takes id
\* out of the noteIds of every folder of the caller that held it, in one
\* write; no folder of the caller lists id afterwards, and no other
\* folder's noteIds and no other note is changed.
C23_DeleteNoteCleansFolders ==
    (last.op = "deleteNote" /\ last.result = "ok") =>
        LET n == last.args.noteId
            u == last.user
        IN  /\ ~notes[n].exists
            /\ last.wrote = 1
            /\ \A m \in NoteIds \ {n} : notes[m] = last.pre.notes[m]
            /\ index = last.pre.index
            /\ \A f \in FolderIds :
                  IF FolderOwned(last.pre.folders, f, u)
                  THEN /\ folders[f].exists
                       /\ ~Includes(folders[f].noteIds, n)
                       /\ folders[f].noteIds = Without(last.pre.folders[f].noteIds, n)
                  ELSE folders[f] = last.pre.folders[f]

\* C23 witness: a deleteNote of a note that a folder of the caller listed,
\* in a store that holds another note and another user's folder.
C23_Witness ==
    /\ last.op = "deleteNote"
    /\ last.result = "ok"
    /\ \E f \in FolderIds :
          /\ FolderOwned(last.pre.folders, f, last.user)
          /\ Includes(last.pre.folders[f].noteIds, last.args.noteId)
    /\ \E f \in FolderIds : folders[f].exists /\ folders[f].userId # last.user
    /\ \E m \in NoteIds : notes[m].exists

\* C24: when a removal of a member note fails, deleteFolder(f) throws
\* 'Failed to delete notes in the folder' and leaves the folder record and
\* the index as they were; the call goes on to the index and to the removal
\* of the folder only when none of the notes it listed exists any more.
C24_FailedRemovalKeepsFolder ==
    /\ (last.op = "deleteFolder" /\ last.result = ErrDeleteNotes) =>
          /\ folders = last.pre.folders
          /\ folders[last.args.id].exists
          /\ index = last.pre.index
          /\ Includes(index[last.user], last.args.id)
    /\ (/\ last.op = "deleteFolder"
        /\ last.pre.folders[last.args.id].exists
        /\ \E n \in Elems(last.pre.folders[last.args.id].noteIds) : notes[n].exists)
          => last.result \in {ErrAuth, ErrFolder, ErrFolderAuth, ErrDeleteNotes}
    /\ \A s \in Sessions :
          (call[s].op = "deleteFolder" /\ call[s].pc \in {"getUser", "write"}) =>
              \A n \in Elems(call[s].noteIds) : ~notes[n].exists

\* C24 witness: a deleteFolder of a folder of two notes has failed after
\* one of the two removals was applied.
C24_Witness ==
    /\ last.op = "deleteFolder"
    /\ last.result = ErrDeleteNotes
    /\ Len(last.pre.folders[last.args.id].noteIds) = 2
    /\ \E n \in Elems(folders[last.args.id].noteIds) : notes[n].exists
    /\ \E n \in Elems(folders[last.args.id].noteIds) : ~notes[n].exists

\* C25: once the createFolder and deleteFolder calls of a user have ended,
\* calls of two sessions of the user that overlap included, the user's
\* index holds no id twice and holds exactly the ids of the folder records
\* of the user that exist.
C25_IndexMatchesFolders ==
    AllIdle =>
        \A u \in Users :
            /\ \A i, j \in DOMAIN index[u] : index[u][i] = index[u][j] => i = j
            /\ Elems(index[u]) = {f \in FolderIds : FolderOwned(folders, f, u)}

\* C26: when a pass of updateFoldersList ends, every folder of the pass
\* that exists lists only notes that exist, are the caller's and name the
\* folder; a folder whose list was valid already is not written.
C26_PassLeavesValidIds ==
    [][\A s \in Sessions :
          (Len(passes[s]) = 1 /\ passes'[s] = <<>>) =>
              LET p == passes[s][1]
              IN  \A f \in Elems(p.ids) :
                      /\ folders'[f].exists =>
                            \A i \in DOMAIN folders'[f].noteIds :
                                LET n == folders'[f].noteIds[i]
                                IN  /\ NoteOwned(notes', n, p.uid)
                                    /\ notes'[n].folderId = f
                      /\ (/\ folders[f].exists
                          /\ ValidNoteIds(notes, folders, f, p.uid) = folders[f].noteIds)
                            => folders'[f] = folders[f]]_vars

\* C26 witness: the passes of a session have ended, its snapshot of the
\* index is the latest, the only folder ever created lists the second note
\* and no longer the first, whose removal a failed deleteFolder had left
\* applied, and the cached entry has the list of the store.
C26_Witness ==
    \E s \in Sessions :
        /\ Mounted(s)
        /\ ~pendingUser[s]
        /\ passes[s] = <<>>
        /\ nextFolderId = 2
        /\ index[user[s]] = <<1>>
        /\ folders[1].exists
        /\ folders[1].noteIds = <<2>>
        /\ ~notes[1].exists
        /\ NoteOwned(notes, 2, user[s])
        /\ cache[s][1].exists
        /\ cache[s][1].noteIds = <<2>>

\* C27: when a pass of updateFoldersList over all the ids of the user's
\* index ends, the list of each of these folders holds exactly the ids of
\* the user's notes whose folderId is the folder.
C27_PassRepairsDrift ==
    [][\A s \in Sessions :
          (/\ Len(passes[s]) = 1
           /\ passes'[s] = <<>>
           /\ passes[s][1].ids = index[passes[s][1].uid])
          => LET p == passes[s][1]
             IN  \A f \in Elems(p.ids) :
                     folders'[f].exists =>
                         Elems(folders'[f].noteIds)
                             = {n \in NoteIds : /\ NoteOwned(notes', n, p.uid)
                                                /\ notes'[n].folderId = f}]_vars

\* C28: a pass of updateFoldersList that started before a cleanup() of its
\* hook does not write into the cached folder list when it ends, a new
\* subscription having been set up or not.
C28_TornPassLeavesCache ==
    [][\A s \in Sessions :
          \A i \in DOMAIN passes[s] :
              (passes[s][i].torn /\ passes'[s] = RemoveAt(passes[s], i))
                  => cache'[s] = cache[s]]_vars

\* C29: when no call is in progress and the callbacks of a session's useNotes
\* listeners have run on the current store (handleNotesUpdate on the current
\* result of the notes query and, with a folder active, the folder listener
\* on the current folder record), the visible list holds exactly the user's
\* stored notes, restricted to the active folder's noteIds when a folder is
\* active.
C29_ViewSettles ==
    \A s \in Sessions :
        LET sub == noteSub[s]
            current == NotesData(notes, user[s])
            inFolder == Truthy(sub.folderId) /\ current # <<>>
            expected == IF inFolder
                        THEN FilteredNotes(current, folders, sub.folderId, user[s])
                        ELSE current
        IN  (/\ AllIdle
             /\ sub.active
             /\ sub.got >= 1
             /\ sub.data = current
             /\ inFolder => (sub.got = 2 /\ sub.folder = folders[sub.folderId]))
            => Elems(view[s]) = Elems(expected)

\* C30: when no call is in progress, no notification of a session's
\* useFolders listeners is waiting and no pass of updateFoldersList is in
\* flight, the cached folder list of the session holds exactly the folders
\* named by the index of its user, with the fields of their stored records.
C30_CacheSettles ==
    \A s \in SignedIn :
        (/\ AllIdle
         /\ Mounted(s)
         /\ ~pendingUser[s]
         /\ pendingFolder[s] = {}
         /\ passes[s] = <<>>
         /\ pendingUpdates[s] = <<>>)
        => \A f \in FolderIds :
               IF Includes(index[user[s]], f) /\ folders[f].exists
               THEN cache[s][f] = folders[f]
               ELSE ~cache[s][f].exists

====
